---- MODULE Spec2Model ----
(***************************************************************************)
(* A model of the AppTrust PROD rollback utility                           *)
(* (scripts/apptrust_rollback.py and its copy under .github/scripts).      *)
(*                                                                         *)
(* Text (version strings, prerelease identifiers) is a sequence of         *)
(* one-character strings, so that SEMVER_RE, str.split, str.isdigit, int() *)
(* and the comparison of strings are computed rather than assumed.         *)
(* Release statuses are text as well, so that str.upper() is computed.     *)
(* Tags and property keys are only ever compared for equality and are kept *)
(* as TLA+ strings.                                                        *)
(***************************************************************************)
EXTENDS Integers, Sequences, FiniteSets, TLC

(***************************************************************************)
(* Characters                                                              *)
(***************************************************************************)
Digits == {"0", "1", "2", "3", "4", "5", "6", "7", "8", "9"}

\* The character U+0660, ARABIC-INDIC DIGIT ZERO: a decimal digit that is
\* not an ASCII one (the module's strings are ASCII, so it goes by its name).
ArabicIndicZero == "U+0660"

\* The decimal digits of Unicode (category Nd), those of value v at index
\* v + 1.
DecimalDigitsOf ==
    <<
      {
        "0", "U+0660", "U+06F0", "U+07C0", "U+0966", "U+09E6", "U+0A66",
        "U+0AE6", "U+0B66", "U+0BE6", "U+0C66", "U+0CE6", "U+0D66", "U+0DE6",
        "U+0E50", "U+0ED0", "U+0F20", "U+1040", "U+1090", "U+17E0", "U+1810",
        "U+1946", "U+19D0", "U+1A80", "U+1A90", "U+1B50", "U+1BB0", "U+1C40",
        "U+1C50", "U+A620", "U+A8D0", "U+A900", "U+A9D0", "U+A9F0", "U+AA50",
        "U+ABF0", "U+FF10", "U+104A0", "U+10D30", "U+11066", "U+110F0",
        "U+11136", "U+111D0", "U+112F0", "U+11450", "U+114D0", "U+11650",
        "U+116C0", "U+11730", "U+118E0", "U+11950", "U+11C50", "U+11D50",
        "U+11DA0", "U+16A60", "U+16AC0", "U+16B50", "U+1D7CE", "U+1D7D8",
        "U+1D7E2", "U+1D7EC", "U+1D7F6", "U+1E140", "U+1E2F0", "U+1E950",
        "U+1FBF0"},
      {
        "1", "U+0661", "U+06F1", "U+07C1", "U+0967", "U+09E7", "U+0A67",
        "U+0AE7", "U+0B67", "U+0BE7", "U+0C67", "U+0CE7", "U+0D67", "U+0DE7",
        "U+0E51", "U+0ED1", "U+0F21", "U+1041", "U+1091", "U+17E1", "U+1811",
        "U+1947", "U+19D1", "U+1A81", "U+1A91", "U+1B51", "U+1BB1", "U+1C41",
        "U+1C51", "U+A621", "U+A8D1", "U+A901", "U+A9D1", "U+A9F1", "U+AA51",
        "U+ABF1", "U+FF11", "U+104A1", "U+10D31", "U+11067", "U+110F1",
        "U+11137", "U+111D1", "U+112F1", "U+11451", "U+114D1", "U+11651",
        "U+116C1", "U+11731", "U+118E1", "U+11951", "U+11C51", "U+11D51",
        "U+11DA1", "U+16A61", "U+16AC1", "U+16B51", "U+1D7CF", "U+1D7D9",
        "U+1D7E3", "U+1D7ED", "U+1D7F7", "U+1E141", "U+1E2F1", "U+1E951",
        "U+1FBF1"},
      {
        "2", "U+0662", "U+06F2", "U+07C2", "U+0968", "U+09E8", "U+0A68",
        "U+0AE8", "U+0B68", "U+0BE8", "U+0C68", "U+0CE8", "U+0D68", "U+0DE8",
        "U+0E52", "U+0ED2", "U+0F22", "U+1042", "U+1092", "U+17E2", "U+1812",
        "U+1948", "U+19D2", "U+1A82", "U+1A92", "U+1B52", "U+1BB2", "U+1C42",
        "U+1C52", "U+A622", "U+A8D2", "U+A902", "U+A9D2", "U+A9F2", "U+AA52",
        "U+ABF2", "U+FF12", "U+104A2", "U+10D32", "U+11068", "U+110F2",
        "U+11138", "U+111D2", "U+112F2", "U+11452", "U+114D2", "U+11652",
        "U+116C2", "U+11732", "U+118E2", "U+11952", "U+11C52", "U+11D52",
        "U+11DA2", "U+16A62", "U+16AC2", "U+16B52", "U+1D7D0", "U+1D7DA",
        "U+1D7E4", "U+1D7EE", "U+1D7F8", "U+1E142", "U+1E2F2", "U+1E952",
        "U+1FBF2"},
      {
        "3", "U+0663", "U+06F3", "U+07C3", "U+0969", "U+09E9", "U+0A69",
        "U+0AE9", "U+0B69", "U+0BE9", "U+0C69", "U+0CE9", "U+0D69", "U+0DE9",
        "U+0E53", "U+0ED3", "U+0F23", "U+1043", "U+1093", "U+17E3", "U+1813",
        "U+1949", "U+19D3", "U+1A83", "U+1A93", "U+1B53", "U+1BB3", "U+1C43",
        "U+1C53", "U+A623", "U+A8D3", "U+A903", "U+A9D3", "U+A9F3", "U+AA53",
        "U+ABF3", "U+FF13", "U+104A3", "U+10D33", "U+11069", "U+110F3",
        "U+11139", "U+111D3", "U+112F3", "U+11453", "U+114D3", "U+11653",
        "U+116C3", "U+11733", "U+118E3", "U+11953", "U+11C53", "U+11D53",
        "U+11DA3", "U+16A63", "U+16AC3", "U+16B53", "U+1D7D1", "U+1D7DB",
        "U+1D7E5", "U+1D7EF", "U+1D7F9", "U+1E143", "U+1E2F3", "U+1E953",
        "U+1FBF3"},
      {
        "4", "U+0664", "U+06F4", "U+07C4", "U+096A", "U+09EA", "U+0A6A",
        "U+0AEA", "U+0B6A", "U+0BEA", "U+0C6A", "U+0CEA", "U+0D6A", "U+0DEA",
        "U+0E54", "U+0ED4", "U+0F24", "U+1044", "U+1094", "U+17E4", "U+1814",
        "U+194A", "U+19D4", "U+1A84", "U+1A94", "U+1B54", "U+1BB4", "U+1C44",
        "U+1C54", "U+A624", "U+A8D4", "U+A904", "U+A9D4", "U+A9F4", "U+AA54",
        "U+ABF4", "U+FF14", "U+104A4", "U+10D34", "U+1106A", "U+110F4",
        "U+1113A", "U+111D4", "U+112F4", "U+11454", "U+114D4", "U+11654",
        "U+116C4", "U+11734", "U+118E4", "U+11954", "U+11C54", "U+11D54",
        "U+11DA4", "U+16A64", "U+16AC4", "U+16B54", "U+1D7D2", "U+1D7DC",
        "U+1D7E6", "U+1D7F0", "U+1D7FA", "U+1E144", "U+1E2F4", "U+1E954",
        "U+1FBF4"},
      {
        "5", "U+0665", "U+06F5", "U+07C5", "U+096B", "U+09EB", "U+0A6B",
        "U+0AEB", "U+0B6B", "U+0BEB", "U+0C6B", "U+0CEB", "U+0D6B", "U+0DEB",
        "U+0E55", "U+0ED5", "U+0F25", "U+1045", "U+1095", "U+17E5", "U+1815",
        "U+194B", "U+19D5", "U+1A85", "U+1A95", "U+1B55", "U+1BB5", "U+1C45",
        "U+1C55", "U+A625", "U+A8D5", "U+A905", "U+A9D5", "U+A9F5", "U+AA55",
        "U+ABF5", "U+FF15", "U+104A5", "U+10D35", "U+1106B", "U+110F5",
        "U+1113B", "U+111D5", "U+112F5", "U+11455", "U+114D5", "U+11655",
        "U+116C5", "U+11735", "U+118E5", "U+11955", "U+11C55", "U+11D55",
        "U+11DA5", "U+16A65", "U+16AC5", "U+16B55", "U+1D7D3", "U+1D7DD",
        "U+1D7E7", "U+1D7F1", "U+1D7FB", "U+1E145", "U+1E2F5", "U+1E955",
        "U+1FBF5"},
      {
        "6", "U+0666", "U+06F6", "U+07C6", "U+096C", "U+09EC", "U+0A6C",
        "U+0AEC", "U+0B6C", "U+0BEC", "U+0C6C", "U+0CEC", "U+0D6C", "U+0DEC",
        "U+0E56", "U+0ED6", "U+0F26", "U+1046", "U+1096", "U+17E6", "U+1816",
        "U+194C", "U+19D6", "U+1A86", "U+1A96", "U+1B56", "U+1BB6", "U+1C46",
        "U+1C56", "U+A626", "U+A8D6", "U+A906", "U+A9D6", "U+A9F6", "U+AA56",
        "U+ABF6", "U+FF16", "U+104A6", "U+10D36", "U+1106C", "U+110F6",
        "U+1113C", "U+111D6", "U+112F6", "U+11456", "U+114D6", "U+11656",
        "U+116C6", "U+11736", "U+118E6", "U+11956", "U+11C56", "U+11D56",
        "U+11DA6", "U+16A66", "U+16AC6", "U+16B56", "U+1D7D4", "U+1D7DE",
        "U+1D7E8", "U+1D7F2", "U+1D7FC", "U+1E146", "U+1E2F6", "U+1E956",
        "U+1FBF6"},
      {
        "7", "U+0667", "U+06F7", "U+07C7", "U+096D", "U+09ED", "U+0A6D",
        "U+0AED", "U+0B6D", "U+0BED", "U+0C6D", "U+0CED", "U+0D6D", "U+0DED",
        "U+0E57", "U+0ED7", "U+0F27", "U+1047", "U+1097", "U+17E7", "U+1817",
        "U+194D", "U+19D7", "U+1A87", "U+1A97", "U+1B57", "U+1BB7", "U+1C47",
        "U+1C57", "U+A627", "U+A8D7", "U+A907", "U+A9D7", "U+A9F7", "U+AA57",
        "U+ABF7", "U+FF17", "U+104A7", "U+10D37", "U+1106D", "U+110F7",
        "U+1113D", "U+111D7", "U+112F7", "U+11457", "U+114D7", "U+11657",
        "U+116C7", "U+11737", "U+118E7", "U+11957", "U+11C57", "U+11D57",
        "U+11DA7", "U+16A67", "U+16AC7", "U+16B57", "U+1D7D5", "U+1D7DF",
        "U+1D7E9", "U+1D7F3", "U+1D7FD", "U+1E147", "U+1E2F7", "U+1E957",
        "U+1FBF7"},
      {
        "8", "U+0668", "U+06F8", "U+07C8", "U+096E", "U+09EE", "U+0A6E",
        "U+0AEE", "U+0B6E", "U+0BEE", "U+0C6E", "U+0CEE", "U+0D6E", "U+0DEE",
        "U+0E58", "U+0ED8", "U+0F28", "U+1048", "U+1098", "U+17E8", "U+1818",
        "U+194E", "U+19D8", "U+1A88", "U+1A98", "U+1B58", "U+1BB8", "U+1C48",
        "U+1C58", "U+A628", "U+A8D8", "U+A908", "U+A9D8", "U+A9F8", "U+AA58",
        "U+ABF8", "U+FF18", "U+104A8", "U+10D38", "U+1106E", "U+110F8",
        "U+1113E", "U+111D8", "U+112F8", "U+11458", "U+114D8", "U+11658",
        "U+116C8", "U+11738", "U+118E8", "U+11958", "U+11C58", "U+11D58",
        "U+11DA8", "U+16A68", "U+16AC8", "U+16B58", "U+1D7D6", "U+1D7E0",
        "U+1D7EA", "U+1D7F4", "U+1D7FE", "U+1E148", "U+1E2F8", "U+1E958",
        "U+1FBF8"},
      {
        "9", "U+0669", "U+06F9", "U+07C9", "U+096F", "U+09EF", "U+0A6F",
        "U+0AEF", "U+0B6F", "U+0BEF", "U+0C6F", "U+0CEF", "U+0D6F", "U+0DEF",
        "U+0E59", "U+0ED9", "U+0F29", "U+1049", "U+1099", "U+17E9", "U+1819",
        "U+194F", "U+19D9", "U+1A89", "U+1A99", "U+1B59", "U+1BB9", "U+1C49",
        "U+1C59", "U+A629", "U+A8D9", "U+A909", "U+A9D9", "U+A9F9", "U+AA59",
        "U+ABF9", "U+FF19", "U+104A9", "U+10D39", "U+1106F", "U+110F9",
        "U+1113F", "U+111D9", "U+112F9", "U+11459", "U+114D9", "U+11659",
        "U+116C9", "U+11739", "U+118E9", "U+11959", "U+11C59", "U+11D59",
        "U+11DA9", "U+16A69", "U+16AC9", "U+16B59", "U+1D7D7", "U+1D7E1",
        "U+1D7EB", "U+1D7F5", "U+1D7FF", "U+1E149", "U+1E2F9", "U+1E959",
        "U+1FBF9"}
    >>

\* \d of the regular expression, which is a str pattern: any decimal digit.
DecimalDigits == UNION {DecimalDigitsOf[i] : i \in 1..10}

\* The value of each decimal digit.
DigitValueOf ==
    [c \in DecimalDigits |-> (CHOOSE i \in 1..10 : c \in DecimalDigitsOf[i]) - 1]

\* The characters str.isdigit() takes for digits and \d does not
\* (superscripts, circled digits and the like).
OtherDigits ==
    {
      "U+00B2", "U+00B3", "U+00B9", "U+1369", "U+136A", "U+136B", "U+136C",
      "U+136D", "U+136E", "U+136F", "U+1370", "U+1371", "U+19DA", "U+2070",
      "U+2074", "U+2075", "U+2076", "U+2077", "U+2078", "U+2079", "U+2080",
      "U+2081", "U+2082", "U+2083", "U+2084", "U+2085", "U+2086", "U+2087",
      "U+2088", "U+2089", "U+2460", "U+2461", "U+2462", "U+2463", "U+2464",
      "U+2465", "U+2466", "U+2467", "U+2468", "U+2474", "U+2475", "U+2476",
      "U+2477", "U+2478", "U+2479", "U+247A", "U+247B", "U+247C", "U+2488",
      "U+2489", "U+248A", "U+248B", "U+248C", "U+248D", "U+248E", "U+248F",
      "U+2490", "U+24EA", "U+24F5", "U+24F6", "U+24F7", "U+24F8", "U+24F9",
      "U+24FA", "U+24FB", "U+24FC", "U+24FD", "U+24FF", "U+2776", "U+2777",
      "U+2778", "U+2779", "U+277A", "U+277B", "U+277C", "U+277D", "U+277E",
      "U+2780", "U+2781", "U+2782", "U+2783", "U+2784", "U+2785", "U+2786",
      "U+2787", "U+2788", "U+278A", "U+278B", "U+278C", "U+278D", "U+278E",
      "U+278F", "U+2790", "U+2791", "U+2792", "U+10A40", "U+10A41",
      "U+10A42", "U+10A43", "U+10E60", "U+10E61", "U+10E62", "U+10E63",
      "U+10E64", "U+10E65", "U+10E66", "U+10E67", "U+10E68", "U+11052",
      "U+11053", "U+11054", "U+11055", "U+11056", "U+11057", "U+11058",
      "U+11059", "U+1105A", "U+1F100", "U+1F101", "U+1F102", "U+1F103",
      "U+1F104", "U+1F105", "U+1F106", "U+1F107", "U+1F108", "U+1F109",
      "U+1F10A"}

Letters ==
    {"a", "b", "c", "d", "e", "f", "g", "h", "i", "j", "k", "l", "m",
     "n", "o", "p", "q", "r", "s", "t", "u", "v", "w", "x", "y", "z",
     "A", "B", "C", "D", "E", "F", "G", "H", "I", "J", "K", "L", "M",
     "N", "O", "P", "Q", "R", "S", "T", "U", "V", "W", "X", "Y", "Z"}

\* \s of the regular expression, which is a str pattern: the ASCII white
\* space, the separators U+001C to U+001F and the white space beyond ASCII.
\* A character the module's strings cannot hold goes by its name.
Whitespace ==
    {" ", "\t", "\n", "\r", "\f", "U+000B",
     "U+001C", "U+001D", "U+001E", "U+001F", "U+0085", "U+00A0", "U+1680",
     "U+2000", "U+2001", "U+2002", "U+2003", "U+2004", "U+2005", "U+2006",
     "U+2007", "U+2008", "U+2009", "U+200A", "U+2028", "U+2029", "U+202F",
     "U+205F", "U+3000"}

\* [0-9a-zA-Z-]
IdentChars == Digits \cup Letters \cup {"-"}

\* The characters of the model in code point order: what str < str compares.
CodePointOrder ==
    <<"-",
      "0", "1", "2", "3", "4", "5", "6", "7", "8", "9",
      "A", "B", "C", "D", "E", "F", "G", "H", "I", "J", "K", "L", "M",
      "N", "O", "P", "Q", "R", "S", "T", "U", "V", "W", "X", "Y", "Z",
      "a", "b", "c", "d", "e", "f", "g", "h", "i", "j", "k", "l", "m",
      "n", "o", "p", "q", "r", "s", "t", "u", "v", "w", "x", "y", "z",
      ArabicIndicZero>>

\* The rank of each character in that order.
RankOf ==
    [c \in {CodePointOrder[i] : i \in 1..Len(CodePointOrder)} |->
        CHOOSE i \in 1..Len(CodePointOrder) : CodePointOrder[i] = c]

ord(c) == RankOf[c]

\* The value int() gives a decimal digit.
DigitValue(c) == DigitValueOf[c]

\* str.isdigit(): non-empty and every character a digit.
isdigit(s) ==
    Len(s) > 0 /\ \A i \in 1..Len(s) : s[i] \in DecimalDigits \cup OtherDigits

\* The number written by a string of decimal digits.
RECURSIVE decimal_value(_)
decimal_value(s) ==
    IF Len(s) = 0 THEN 0
    ELSE 10 * decimal_value(SubSeq(s, 1, Len(s) - 1)) + DigitValue(s[Len(s)])

\* sys.get_int_max_str_digits(): the most digits int() converts.
int_max_str_digits == 4300

\* The exception int() raises, and with it SemVer.parse, compare_semver and
\* their callers up to main.
ValueError == [raised |-> "ValueError"]

\* int(s) raises ValueError: s is empty, has a character that is not a
\* decimal digit, or has more digits than int() converts.
int_raises(s) ==
    \/ Len(s) = 0
    \/ Len(s) > int_max_str_digits
    \/ \E i \in 1..Len(s) : s[i] \notin DecimalDigits

\* int(s) of a string s that matched \d+ or passed isdigit().
int(s) == IF int_raises(s) THEN ValueError ELSE decimal_value(s)

\* a < b on strings: the first differing character decides, a proper prefix
\* is smaller.
RECURSIVE str_lt(_, _)
str_lt(a, b) ==
    IF Len(b) = 0 THEN FALSE
    ELSE IF Len(a) = 0 THEN TRUE
    ELSE IF a[1] = b[1] THEN str_lt(Tail(a), Tail(b))
    ELSE ord(a[1]) < ord(b[1])

\* s.split(sep) for a one-character separator: always at least one piece.
RECURSIVE split(_, _)
split(s, sep) ==
    IF \A i \in 1..Len(s) : s[i] # sep THEN <<s>>
    ELSE LET k == CHOOSE i \in 1..Len(s) :
                      s[i] = sep /\ \A j \in 1..(i - 1) : s[j] # sep
         IN  <<SubSeq(s, 1, k - 1)>> \o split(SubSeq(s, k + 1, Len(s)), sep)

\* Index of the first occurrence of c in s, 0 when there is none.
find(s, c) ==
    IF \E i \in 1..Len(s) : s[i] = c
    THEN CHOOSE i \in 1..Len(s) : s[i] = c /\ \A j \in 1..(i - 1) : s[j] # c
    ELSE 0

(***************************************************************************)
(* SEMVER_RE and SemVer.parse                                              *)
(***************************************************************************)
\* 0|[1-9]\d*
NumericIdent(s) ==
    \/ s = <<"0">>
    \/ /\ Len(s) > 0
       /\ s[1] \in Digits \ {"0"}
       /\ \A i \in 2..Len(s) : s[i] \in DecimalDigits

\* [a-zA-Z-][0-9a-zA-Z-]*
AlphaIdent(s) ==
    /\ Len(s) > 0
    /\ s[1] \in Letters \cup {"-"}
    /\ \A i \in 1..Len(s) : s[i] \in IdentChars

\* [0-9a-zA-Z-]+
BuildIdent(s) == Len(s) > 0 /\ \A i \in 1..Len(s) : s[i] \in IdentChars

\* ^\s* and \s*$ : the text between the leading and the trailing white space.
RECURSIVE lstrip(_)
lstrip(s) == IF Len(s) > 0 /\ s[1] \in Whitespace THEN lstrip(Tail(s)) ELSE s

RECURSIVE rstrip(_)
rstrip(s) ==
    IF Len(s) > 0 /\ s[Len(s)] \in Whitespace
    THEN rstrip(SubSeq(s, 1, Len(s) - 1))
    ELSE s

\* The named groups of SEMVER_RE on `version`, matched = FALSE when the
\* expression does not match.  The expression is unambiguous: an optional v,
\* the core up to the first "-" or "+", the prerelease between that "-" and
\* the first "+", the build after the "+".
SEMVER_RE(version) ==
    LET body   == rstrip(lstrip(version))
        nov    == IF Len(body) > 0 /\ body[1] = "v" THEN Tail(body) ELSE body
        plus   == find(nov, "+")
        main   == IF plus = 0 THEN nov ELSE SubSeq(nov, 1, plus - 1)
        build  == IF plus = 0 THEN <<>> ELSE SubSeq(nov, plus + 1, Len(nov))
        dash   == find(main, "-")
        core   == IF dash = 0 THEN main ELSE SubSeq(main, 1, dash - 1)
        pre    == IF dash = 0 THEN <<>> ELSE SubSeq(main, dash + 1, Len(main))
        nums   == split(core, ".")
        preIds == split(pre, ".")
        bldIds == split(build, ".")
        ok     == /\ Len(nums) = 3
                  /\ \A i \in 1..3 : NumericIdent(nums[i])
                  /\ (dash # 0 =>
                        \A i \in 1..Len(preIds) :
                            NumericIdent(preIds[i]) \/ AlphaIdent(preIds[i]))
                  /\ (plus # 0 =>
                        \A i \in 1..Len(bldIds) : BuildIdent(bldIds[i]))
    IN  IF ok
        THEN [matched |-> TRUE, major |-> nums[1], minor |-> nums[2],
              patch |-> nums[3], prerelease |-> pre]
        ELSE [matched |-> FALSE]

\* Python's None where a function returns Optional[...]: the value parse
\* returns for an unparsable string and pick_next_latest for no successor.
None == [none |-> TRUE]

\* Lines 36-40: the SemVer made of the groups g of a match, None without one,
\* ValueError when int() raises on the major, minor or patch group.
SemVer_of(g, version) ==
    IF ~g.matched THEN None
    ELSE IF int_raises(g.major) \/ int_raises(g.minor) \/ int_raises(g.patch)
    THEN ValueError
    ELSE [major      |-> int(g.major),
          minor      |-> int(g.minor),
          patch      |-> int(g.patch),
          prerelease |-> IF g.prerelease # <<>>
                         THEN split(g.prerelease, ".")
                         ELSE <<>>,
          original   |-> version]

SemVer_parse(version) == SemVer_of(SEMVER_RE(version), version)

(***************************************************************************)
(* compare_semver                                                          *)
(***************************************************************************)
min(a, b) == IF a < b THEN a ELSE b

\* The loop over zip(a.prerelease, b.prerelease) from position i on, then the
\* comparison of the lengths.
RECURSIVE compare_prerelease(_, _, _)
compare_prerelease(ap, bp, i) ==
    IF i > min(Len(ap), Len(bp))
    THEN IF Len(ap) # Len(bp)
         THEN (IF Len(ap) < Len(bp) THEN -1 ELSE 1)
         ELSE 0
    ELSE LET at == ap[i]
             bt == bp[i]
             a_num == isdigit(at)
             b_num == isdigit(bt)
         IN  IF at = bt THEN compare_prerelease(ap, bp, i + 1)
             ELSE IF a_num /\ b_num
                  THEN IF int(at) # int(bt)
                       THEN (IF int(at) < int(bt) THEN -1 ELSE 1)
                       ELSE compare_prerelease(ap, bp, i + 1)
             ELSE IF a_num /\ ~b_num THEN -1
             ELSE IF ~a_num /\ b_num THEN 1
             ELSE IF str_lt(at, bt) THEN -1 ELSE 1

\* The loop of compare_prerelease from position i on raises ValueError: at
\* the first pair of different numeric identifiers whose values are not
\* found equal, int() raises on one of them (line 61).
RECURSIVE compare_prerelease_raises(_, _, _)
compare_prerelease_raises(ap, bp, i) ==
    IF i > min(Len(ap), Len(bp)) THEN FALSE
    ELSE LET at == ap[i]
             bt == bp[i]
             a_num == isdigit(at)
             b_num == isdigit(bt)
         IN  IF at = bt THEN compare_prerelease_raises(ap, bp, i + 1)
             ELSE IF a_num /\ b_num
                  THEN IF int_raises(at) \/ int_raises(bt) THEN TRUE
                       ELSE IF int(at) # int(bt) THEN FALSE
                       ELSE compare_prerelease_raises(ap, bp, i + 1)
             ELSE FALSE

\* compare_semver(a, b) raises ValueError instead of returning.
compare_semver_raises(a, b) ==
    /\ a.major = b.major /\ a.minor = b.minor /\ a.patch = b.patch
    /\ a.prerelease # <<>> /\ b.prerelease # <<>>
    /\ compare_prerelease_raises(a.prerelease, b.prerelease, 1)

\* What compare_semver(a, b) returns, when it returns.
compare_semver(a, b) ==
    IF a.major # b.major THEN (IF a.major < b.major THEN -1 ELSE 1)
    ELSE IF a.minor # b.minor THEN (IF a.minor < b.minor THEN -1 ELSE 1)
    ELSE IF a.patch # b.patch THEN (IF a.patch < b.patch THEN -1 ELSE 1)
    ELSE IF a.prerelease = <<>> /\ b.prerelease # <<>> THEN 1
    ELSE IF a.prerelease # <<>> /\ b.prerelease = <<>> THEN -1
    ELSE compare_prerelease(a.prerelease, b.prerelease, 1)

\* SemVer.__lt__
SemVer_lt(a, b) == compare_semver(a, b) < 0

(***************************************************************************)
(* sort_versions_by_semver_desc                                            *)
(***************************************************************************)
\* list.sort(key, reverse=True) is stable: one step of it, placing pair x in
\* the descending list before the first pair of strictly lower precedence, so
\* after every pair that is not lower.
RECURSIVE insert_desc(_, _)
insert_desc(sorted, x) ==
    IF sorted = <<>> THEN <<x>>
    ELSE IF SemVer_lt(sorted[1][1], x[1]) THEN <<x>> \o sorted
    ELSE <<sorted[1]>> \o insert_desc(Tail(sorted), x)

RECURSIVE sort_desc(_, _)
sort_desc(parsed, acc) ==
    IF parsed = <<>> THEN acc
    ELSE sort_desc(Tail(parsed), insert_desc(acc, parsed[1]))

\* A comparison made by insert_desc(sorted, x) raises ValueError.
RECURSIVE insert_desc_raises(_, _)
insert_desc_raises(sorted, x) ==
    IF sorted = <<>> THEN FALSE
    ELSE IF compare_semver_raises(sorted[1][1], x[1]) THEN TRUE
    ELSE IF SemVer_lt(sorted[1][1], x[1]) THEN FALSE
    ELSE insert_desc_raises(Tail(sorted), x)

\* Line 82 raises ValueError: a comparison made by the sort does.  A sort by
\* comparisons compares every two entries that end up next to each other, so
\* list.sort raises exactly when this one does.
RECURSIVE sort_desc_raises(_, _)
sort_desc_raises(parsed, acc) ==
    IF parsed = <<>> THEN FALSE
    ELSE \/ insert_desc_raises(acc, parsed[1])
         \/ sort_desc_raises(Tail(parsed), insert_desc(acc, parsed[1]))

\* Lines 80-81: the pair (sv, v) appended to `parsed` when v parses.
parsed_append(sv, v) == IF sv # None THEN <<(<<sv, v>>)>> ELSE <<>>

\* The pairs (sv, v) of the strings that parse, in input order.
RECURSIVE parsed_pairs(_)
parsed_pairs(version_strings) ==
    IF version_strings = <<>> THEN <<>>
    ELSE parsed_append(SemVer_parse(version_strings[1]), version_strings[1])
             \o parsed_pairs(Tail(version_strings))

\* Line 83: [v for _, v in parsed]
strings_of(parsed) == [i \in 1..Len(parsed) |-> parsed[i][2]]

sort_versions_unsorted(version_strings) ==
    strings_of(parsed_pairs(version_strings))

\* What sort_versions_by_semver_desc returns, when it returns.
sort_versions_by_semver_desc(version_strings) ==
    strings_of(sort_desc(parsed_pairs(version_strings), <<>>))

\* sort_versions_by_semver_desc raises ValueError: SemVer.parse does on one
\* of the strings (line 79), or the sort on the parsed ones (line 82).
sort_versions_by_semver_desc_raises(version_strings) ==
    \/ \E i \in 1..Len(version_strings) :
           SemVer_parse(version_strings[i]) = ValueError
    \/ sort_desc_raises(parsed_pairs(version_strings), <<>>)

(***************************************************************************)
(* Constants of the tool                                                   *)
(***************************************************************************)
TRUSTED == <<"T","R","U","S","T","E","D","_","R","E","L","E","A","S","E">>
RELEASED == <<"R","E","L","E","A","S","E","D">>
QUARANTINE_TAG == "quarantine"
LATEST_TAG == "latest"
BACKUP_BEFORE_LATEST == "original_tag_before_latest"
BACKUP_BEFORE_QUARANTINE == "original_tag_before_quarantine"

\* The "tag" of an entry of the response is JSON null or a JSON string: null
\* is the tag of an entry that was never tagged, <<s>> is the string s, so
\* that the string "null" is <<"null">> and not null.
null == <<>>

\* idx.get(x["version"], 10**9): the sort key of a version string that is not
\* in `order`.
NotRanked == 1000000000

(***************************************************************************)
(* get_prod_versions                                                       *)
(***************************************************************************)
\* The characters str.upper() changes, each with the text it becomes (one to
\* three characters); every other character is kept.
UpperPairs ==
    {
      <<"a", <<"A">>>>, <<"b", <<"B">>>>, <<"c", <<"C">>>>, <<"d", <<"D">>>>,
      <<"e", <<"E">>>>, <<"f", <<"F">>>>, <<"g", <<"G">>>>, <<"h", <<"H">>>>,
      <<"i", <<"I">>>>, <<"j", <<"J">>>>, <<"k", <<"K">>>>, <<"l", <<"L">>>>,
      <<"m", <<"M">>>>, <<"n", <<"N">>>>, <<"o", <<"O">>>>, <<"p", <<"P">>>>,
      <<"q", <<"Q">>>>, <<"r", <<"R">>>>, <<"s", <<"S">>>>, <<"t", <<"T">>>>,
      <<"u", <<"U">>>>, <<"v", <<"V">>>>, <<"w", <<"W">>>>, <<"x", <<"X">>>>,
      <<"y", <<"Y">>>>, <<"z", <<"Z">>>>, <<"U+00B5", <<"U+039C">>>>,
      <<"U+00DF", <<"S", "S">>>>, <<"U+00E0", <<"U+00C0">>>>,
      <<"U+00E1", <<"U+00C1">>>>, <<"U+00E2", <<"U+00C2">>>>,
      <<"U+00E3", <<"U+00C3">>>>, <<"U+00E4", <<"U+00C4">>>>,
      <<"U+00E5", <<"U+00C5">>>>, <<"U+00E6", <<"U+00C6">>>>,
      <<"U+00E7", <<"U+00C7">>>>, <<"U+00E8", <<"U+00C8">>>>,
      <<"U+00E9", <<"U+00C9">>>>, <<"U+00EA", <<"U+00CA">>>>,
      <<"U+00EB", <<"U+00CB">>>>, <<"U+00EC", <<"U+00CC">>>>,
      <<"U+00ED", <<"U+00CD">>>>, <<"U+00EE", <<"U+00CE">>>>,
      <<"U+00EF", <<"U+00CF">>>>, <<"U+00F0", <<"U+00D0">>>>,
      <<"U+00F1", <<"U+00D1">>>>, <<"U+00F2", <<"U+00D2">>>>,
      <<"U+00F3", <<"U+00D3">>>>, <<"U+00F4", <<"U+00D4">>>>,
      <<"U+00F5", <<"U+00D5">>>>, <<"U+00F6", <<"U+00D6">>>>,
      <<"U+00F8", <<"U+00D8">>>>, <<"U+00F9", <<"U+00D9">>>>,
      <<"U+00FA", <<"U+00DA">>>>, <<"U+00FB", <<"U+00DB">>>>,
      <<"U+00FC", <<"U+00DC">>>>, <<"U+00FD", <<"U+00DD">>>>,
      <<"U+00FE", <<"U+00DE">>>>, <<"U+00FF", <<"U+0178">>>>,
      <<"U+0101", <<"U+0100">>>>, <<"U+0103", <<"U+0102">>>>,
      <<"U+0105", <<"U+0104">>>>, <<"U+0107", <<"U+0106">>>>,
      <<"U+0109", <<"U+0108">>>>, <<"U+010B", <<"U+010A">>>>,
      <<"U+010D", <<"U+010C">>>>, <<"U+010F", <<"U+010E">>>>,
      <<"U+0111", <<"U+0110">>>>, <<"U+0113", <<"U+0112">>>>,
      <<"U+0115", <<"U+0114">>>>, <<"U+0117", <<"U+0116">>>>,
      <<"U+0119", <<"U+0118">>>>, <<"U+011B", <<"U+011A">>>>,
      <<"U+011D", <<"U+011C">>>>, <<"U+011F", <<"U+011E">>>>,
      <<"U+0121", <<"U+0120">>>>, <<"U+0123", <<"U+0122">>>>,
      <<"U+0125", <<"U+0124">>>>, <<"U+0127", <<"U+0126">>>>,
      <<"U+0129", <<"U+0128">>>>, <<"U+012B", <<"U+012A">>>>,
      <<"U+012D", <<"U+012C">>>>, <<"U+012F", <<"U+012E">>>>,
      <<"U+0131", <<"I">>>>, <<"U+0133", <<"U+0132">>>>,
      <<"U+0135", <<"U+0134">>>>, <<"U+0137", <<"U+0136">>>>,
      <<"U+013A", <<"U+0139">>>>, <<"U+013C", <<"U+013B">>>>,
      <<"U+013E", <<"U+013D">>>>, <<"U+0140", <<"U+013F">>>>,
      <<"U+0142", <<"U+0141">>>>, <<"U+0144", <<"U+0143">>>>,
      <<"U+0146", <<"U+0145">>>>, <<"U+0148", <<"U+0147">>>>,
      <<"U+0149", <<"U+02BC", "N">>>>, <<"U+014B", <<"U+014A">>>>,
      <<"U+014D", <<"U+014C">>>>, <<"U+014F", <<"U+014E">>>>,
      <<"U+0151", <<"U+0150">>>>, <<"U+0153", <<"U+0152">>>>,
      <<"U+0155", <<"U+0154">>>>, <<"U+0157", <<"U+0156">>>>,
      <<"U+0159", <<"U+0158">>>>, <<"U+015B", <<"U+015A">>>>,
      <<"U+015D", <<"U+015C">>>>, <<"U+015F", <<"U+015E">>>>,
      <<"U+0161", <<"U+0160">>>>, <<"U+0163", <<"U+0162">>>>,
      <<"U+0165", <<"U+0164">>>>, <<"U+0167", <<"U+0166">>>>,
      <<"U+0169", <<"U+0168">>>>, <<"U+016B", <<"U+016A">>>>,
      <<"U+016D", <<"U+016C">>>>, <<"U+016F", <<"U+016E">>>>,
      <<"U+0171", <<"U+0170">>>>, <<"U+0173", <<"U+0172">>>>,
      <<"U+0175", <<"U+0174">>>>, <<"U+0177", <<"U+0176">>>>,
      <<"U+017A", <<"U+0179">>>>, <<"U+017C", <<"U+017B">>>>,
      <<"U+017E", <<"U+017D">>>>, <<"U+017F", <<"S">>>>,
      <<"U+0180", <<"U+0243">>>>, <<"U+0183", <<"U+0182">>>>,
      <<"U+0185", <<"U+0184">>>>, <<"U+0188", <<"U+0187">>>>,
      <<"U+018C", <<"U+018B">>>>, <<"U+0192", <<"U+0191">>>>,
      <<"U+0195", <<"U+01F6">>>>, <<"U+0199", <<"U+0198">>>>,
      <<"U+019A", <<"U+023D">>>>, <<"U+019E", <<"U+0220">>>>,
      <<"U+01A1", <<"U+01A0">>>>, <<"U+01A3", <<"U+01A2">>>>,
      <<"U+01A5", <<"U+01A4">>>>, <<"U+01A8", <<"U+01A7">>>>,
      <<"U+01AD", <<"U+01AC">>>>, <<"U+01B0", <<"U+01AF">>>>,
      <<"U+01B4", <<"U+01B3">>>>, <<"U+01B6", <<"U+01B5">>>>,
      <<"U+01B9", <<"U+01B8">>>>, <<"U+01BD", <<"U+01BC">>>>,
      <<"U+01BF", <<"U+01F7">>>>, <<"U+01C5", <<"U+01C4">>>>,
      <<"U+01C6", <<"U+01C4">>>>, <<"U+01C8", <<"U+01C7">>>>,
      <<"U+01C9", <<"U+01C7">>>>, <<"U+01CB", <<"U+01CA">>>>,
      <<"U+01CC", <<"U+01CA">>>>, <<"U+01CE", <<"U+01CD">>>>,
      <<"U+01D0", <<"U+01CF">>>>, <<"U+01D2", <<"U+01D1">>>>,
      <<"U+01D4", <<"U+01D3">>>>, <<"U+01D6", <<"U+01D5">>>>,
      <<"U+01D8", <<"U+01D7">>>>, <<"U+01DA", <<"U+01D9">>>>,
      <<"U+01DC", <<"U+01DB">>>>, <<"U+01DD", <<"U+018E">>>>,
      <<"U+01DF", <<"U+01DE">>>>, <<"U+01E1", <<"U+01E0">>>>,
      <<"U+01E3", <<"U+01E2">>>>, <<"U+01E5", <<"U+01E4">>>>,
      <<"U+01E7", <<"U+01E6">>>>, <<"U+01E9", <<"U+01E8">>>>,
      <<"U+01EB", <<"U+01EA">>>>, <<"U+01ED", <<"U+01EC">>>>,
      <<"U+01EF", <<"U+01EE">>>>, <<"U+01F0", <<"J", "U+030C">>>>,
      <<"U+01F2", <<"U+01F1">>>>, <<"U+01F3", <<"U+01F1">>>>,
      <<"U+01F5", <<"U+01F4">>>>, <<"U+01F9", <<"U+01F8">>>>,
      <<"U+01FB", <<"U+01FA">>>>, <<"U+01FD", <<"U+01FC">>>>,
      <<"U+01FF", <<"U+01FE">>>>, <<"U+0201", <<"U+0200">>>>,
      <<"U+0203", <<"U+0202">>>>, <<"U+0205", <<"U+0204">>>>,
      <<"U+0207", <<"U+0206">>>>, <<"U+0209", <<"U+0208">>>>,
      <<"U+020B", <<"U+020A">>>>, <<"U+020D", <<"U+020C">>>>,
      <<"U+020F", <<"U+020E">>>>, <<"U+0211", <<"U+0210">>>>,
      <<"U+0213", <<"U+0212">>>>, <<"U+0215", <<"U+0214">>>>,
      <<"U+0217", <<"U+0216">>>>, <<"U+0219", <<"U+0218">>>>,
      <<"U+021B", <<"U+021A">>>>, <<"U+021D", <<"U+021C">>>>,
      <<"U+021F", <<"U+021E">>>>, <<"U+0223", <<"U+0222">>>>,
      <<"U+0225", <<"U+0224">>>>, <<"U+0227", <<"U+0226">>>>,
      <<"U+0229", <<"U+0228">>>>, <<"U+022B", <<"U+022A">>>>,
      <<"U+022D", <<"U+022C">>>>, <<"U+022F", <<"U+022E">>>>,
      <<"U+0231", <<"U+0230">>>>, <<"U+0233", <<"U+0232">>>>,
      <<"U+023C", <<"U+023B">>>>, <<"U+023F", <<"U+2C7E">>>>,
      <<"U+0240", <<"U+2C7F">>>>, <<"U+0242", <<"U+0241">>>>,
      <<"U+0247", <<"U+0246">>>>, <<"U+0249", <<"U+0248">>>>,
      <<"U+024B", <<"U+024A">>>>, <<"U+024D", <<"U+024C">>>>,
      <<"U+024F", <<"U+024E">>>>, <<"U+0250", <<"U+2C6F">>>>,
      <<"U+0251", <<"U+2C6D">>>>, <<"U+0252", <<"U+2C70">>>>,
      <<"U+0253", <<"U+0181">>>>, <<"U+0254", <<"U+0186">>>>,
      <<"U+0256", <<"U+0189">>>>, <<"U+0257", <<"U+018A">>>>,
      <<"U+0259", <<"U+018F">>>>, <<"U+025B", <<"U+0190">>>>,
      <<"U+025C", <<"U+A7AB">>>>, <<"U+0260", <<"U+0193">>>>,
      <<"U+0261", <<"U+A7AC">>>>, <<"U+0263", <<"U+0194">>>>,
      <<"U+0265", <<"U+A78D">>>>, <<"U+0266", <<"U+A7AA">>>>,
      <<"U+0268", <<"U+0197">>>>, <<"U+0269", <<"U+0196">>>>,
      <<"U+026A", <<"U+A7AE">>>>, <<"U+026B", <<"U+2C62">>>>,
      <<"U+026C", <<"U+A7AD">>>>, <<"U+026F", <<"U+019C">>>>,
      <<"U+0271", <<"U+2C6E">>>>, <<"U+0272", <<"U+019D">>>>,
      <<"U+0275", <<"U+019F">>>>, <<"U+027D", <<"U+2C64">>>>,
      <<"U+0280", <<"U+01A6">>>>, <<"U+0282", <<"U+A7C5">>>>,
      <<"U+0283", <<"U+01A9">>>>, <<"U+0287", <<"U+A7B1">>>>,
      <<"U+0288", <<"U+01AE">>>>, <<"U+0289", <<"U+0244">>>>,
      <<"U+028A", <<"U+01B1">>>>, <<"U+028B", <<"U+01B2">>>>,
      <<"U+028C", <<"U+0245">>>>, <<"U+0292", <<"U+01B7">>>>,
      <<"U+029D", <<"U+A7B2">>>>, <<"U+029E", <<"U+A7B0">>>>,
      <<"U+0345", <<"U+0399">>>>, <<"U+0371", <<"U+0370">>>>,
      <<"U+0373", <<"U+0372">>>>, <<"U+0377", <<"U+0376">>>>,
      <<"U+037B", <<"U+03FD">>>>, <<"U+037C", <<"U+03FE">>>>,
      <<"U+037D", <<"U+03FF">>>>,
      <<"U+0390", <<"U+0399", "U+0308", "U+0301">>>>,
      <<"U+03AC", <<"U+0386">>>>, <<"U+03AD", <<"U+0388">>>>,
      <<"U+03AE", <<"U+0389">>>>, <<"U+03AF", <<"U+038A">>>>,
      <<"U+03B0", <<"U+03A5", "U+0308", "U+0301">>>>,
      <<"U+03B1", <<"U+0391">>>>, <<"U+03B2", <<"U+0392">>>>,
      <<"U+03B3", <<"U+0393">>>>, <<"U+03B4", <<"U+0394">>>>,
      <<"U+03B5", <<"U+0395">>>>, <<"U+03B6", <<"U+0396">>>>,
      <<"U+03B7", <<"U+0397">>>>, <<"U+03B8", <<"U+0398">>>>,
      <<"U+03B9", <<"U+0399">>>>, <<"U+03BA", <<"U+039A">>>>,
      <<"U+03BB", <<"U+039B">>>>, <<"U+03BC", <<"U+039C">>>>,
      <<"U+03BD", <<"U+039D">>>>, <<"U+03BE", <<"U+039E">>>>,
      <<"U+03BF", <<"U+039F">>>>, <<"U+03C0", <<"U+03A0">>>>,
      <<"U+03C1", <<"U+03A1">>>>, <<"U+03C2", <<"U+03A3">>>>,
      <<"U+03C3", <<"U+03A3">>>>, <<"U+03C4", <<"U+03A4">>>>,
      <<"U+03C5", <<"U+03A5">>>>, <<"U+03C6", <<"U+03A6">>>>,
      <<"U+03C7", <<"U+03A7">>>>, <<"U+03C8", <<"U+03A8">>>>,
      <<"U+03C9", <<"U+03A9">>>>, <<"U+03CA", <<"U+03AA">>>>,
      <<"U+03CB", <<"U+03AB">>>>, <<"U+03CC", <<"U+038C">>>>,
      <<"U+03CD", <<"U+038E">>>>, <<"U+03CE", <<"U+038F">>>>,
      <<"U+03D0", <<"U+0392">>>>, <<"U+03D1", <<"U+0398">>>>,
      <<"U+03D5", <<"U+03A6">>>>, <<"U+03D6", <<"U+03A0">>>>,
      <<"U+03D7", <<"U+03CF">>>>, <<"U+03D9", <<"U+03D8">>>>,
      <<"U+03DB", <<"U+03DA">>>>, <<"U+03DD", <<"U+03DC">>>>,
      <<"U+03DF", <<"U+03DE">>>>, <<"U+03E1", <<"U+03E0">>>>,
      <<"U+03E3", <<"U+03E2">>>>, <<"U+03E5", <<"U+03E4">>>>,
      <<"U+03E7", <<"U+03E6">>>>, <<"U+03E9", <<"U+03E8">>>>,
      <<"U+03EB", <<"U+03EA">>>>, <<"U+03ED", <<"U+03EC">>>>,
      <<"U+03EF", <<"U+03EE">>>>, <<"U+03F0", <<"U+039A">>>>,
      <<"U+03F1", <<"U+03A1">>>>, <<"U+03F2", <<"U+03F9">>>>,
      <<"U+03F3", <<"U+037F">>>>, <<"U+03F5", <<"U+0395">>>>,
      <<"U+03F8", <<"U+03F7">>>>, <<"U+03FB", <<"U+03FA">>>>,
      <<"U+0430", <<"U+0410">>>>, <<"U+0431", <<"U+0411">>>>,
      <<"U+0432", <<"U+0412">>>>, <<"U+0433", <<"U+0413">>>>,
      <<"U+0434", <<"U+0414">>>>, <<"U+0435", <<"U+0415">>>>,
      <<"U+0436", <<"U+0416">>>>, <<"U+0437", <<"U+0417">>>>,
      <<"U+0438", <<"U+0418">>>>, <<"U+0439", <<"U+0419">>>>,
      <<"U+043A", <<"U+041A">>>>, <<"U+043B", <<"U+041B">>>>,
      <<"U+043C", <<"U+041C">>>>, <<"U+043D", <<"U+041D">>>>,
      <<"U+043E", <<"U+041E">>>>, <<"U+043F", <<"U+041F">>>>,
      <<"U+0440", <<"U+0420">>>>, <<"U+0441", <<"U+0421">>>>,
      <<"U+0442", <<"U+0422">>>>, <<"U+0443", <<"U+0423">>>>,
      <<"U+0444", <<"U+0424">>>>, <<"U+0445", <<"U+0425">>>>,
      <<"U+0446", <<"U+0426">>>>, <<"U+0447", <<"U+0427">>>>,
      <<"U+0448", <<"U+0428">>>>, <<"U+0449", <<"U+0429">>>>,
      <<"U+044A", <<"U+042A">>>>, <<"U+044B", <<"U+042B">>>>,
      <<"U+044C", <<"U+042C">>>>, <<"U+044D", <<"U+042D">>>>,
      <<"U+044E", <<"U+042E">>>>, <<"U+044F", <<"U+042F">>>>,
      <<"U+0450", <<"U+0400">>>>, <<"U+0451", <<"U+0401">>>>,
      <<"U+0452", <<"U+0402">>>>, <<"U+0453", <<"U+0403">>>>,
      <<"U+0454", <<"U+0404">>>>, <<"U+0455", <<"U+0405">>>>,
      <<"U+0456", <<"U+0406">>>>, <<"U+0457", <<"U+0407">>>>,
      <<"U+0458", <<"U+0408">>>>, <<"U+0459", <<"U+0409">>>>,
      <<"U+045A", <<"U+040A">>>>, <<"U+045B", <<"U+040B">>>>,
      <<"U+045C", <<"U+040C">>>>, <<"U+045D", <<"U+040D">>>>,
      <<"U+045E", <<"U+040E">>>>, <<"U+045F", <<"U+040F">>>>,
      <<"U+0461", <<"U+0460">>>>, <<"U+0463", <<"U+0462">>>>,
      <<"U+0465", <<"U+0464">>>>, <<"U+0467", <<"U+0466">>>>,
      <<"U+0469", <<"U+0468">>>>, <<"U+046B", <<"U+046A">>>>,
      <<"U+046D", <<"U+046C">>>>, <<"U+046F", <<"U+046E">>>>,
      <<"U+0471", <<"U+0470">>>>, <<"U+0473", <<"U+0472">>>>,
      <<"U+0475", <<"U+0474">>>>, <<"U+0477", <<"U+0476">>>>,
      <<"U+0479", <<"U+0478">>>>, <<"U+047B", <<"U+047A">>>>,
      <<"U+047D", <<"U+047C">>>>, <<"U+047F", <<"U+047E">>>>,
      <<"U+0481", <<"U+0480">>>>, <<"U+048B", <<"U+048A">>>>,
      <<"U+048D", <<"U+048C">>>>, <<"U+048F", <<"U+048E">>>>,
      <<"U+0491", <<"U+0490">>>>, <<"U+0493", <<"U+0492">>>>,
      <<"U+0495", <<"U+0494">>>>, <<"U+0497", <<"U+0496">>>>,
      <<"U+0499", <<"U+0498">>>>, <<"U+049B", <<"U+049A">>>>,
      <<"U+049D", <<"U+049C">>>>, <<"U+049F", <<"U+049E">>>>,
      <<"U+04A1", <<"U+04A0">>>>, <<"U+04A3", <<"U+04A2">>>>,
      <<"U+04A5", <<"U+04A4">>>>, <<"U+04A7", <<"U+04A6">>>>,
      <<"U+04A9", <<"U+04A8">>>>, <<"U+04AB", <<"U+04AA">>>>,
      <<"U+04AD", <<"U+04AC">>>>, <<"U+04AF", <<"U+04AE">>>>,
      <<"U+04B1", <<"U+04B0">>>>, <<"U+04B3", <<"U+04B2">>>>,
      <<"U+04B5", <<"U+04B4">>>>, <<"U+04B7", <<"U+04B6">>>>,
      <<"U+04B9", <<"U+04B8">>>>, <<"U+04BB", <<"U+04BA">>>>,
      <<"U+04BD", <<"U+04BC">>>>, <<"U+04BF", <<"U+04BE">>>>,
      <<"U+04C2", <<"U+04C1">>>>, <<"U+04C4", <<"U+04C3">>>>,
      <<"U+04C6", <<"U+04C5">>>>, <<"U+04C8", <<"U+04C7">>>>,
      <<"U+04CA", <<"U+04C9">>>>, <<"U+04CC", <<"U+04CB">>>>,
      <<"U+04CE", <<"U+04CD">>>>, <<"U+04CF", <<"U+04C0">>>>,
      <<"U+04D1", <<"U+04D0">>>>, <<"U+04D3", <<"U+04D2">>>>,
      <<"U+04D5", <<"U+04D4">>>>, <<"U+04D7", <<"U+04D6">>>>,
      <<"U+04D9", <<"U+04D8">>>>, <<"U+04DB", <<"U+04DA">>>>,
      <<"U+04DD", <<"U+04DC">>>>, <<"U+04DF", <<"U+04DE">>>>,
      <<"U+04E1", <<"U+04E0">>>>, <<"U+04E3", <<"U+04E2">>>>,
      <<"U+04E5", <<"U+04E4">>>>, <<"U+04E7", <<"U+04E6">>>>,
      <<"U+04E9", <<"U+04E8">>>>, <<"U+04EB", <<"U+04EA">>>>,
      <<"U+04ED", <<"U+04EC">>>>, <<"U+04EF", <<"U+04EE">>>>,
      <<"U+04F1", <<"U+04F0">>>>, <<"U+04F3", <<"U+04F2">>>>,
      <<"U+04F5", <<"U+04F4">>>>, <<"U+04F7", <<"U+04F6">>>>,
      <<"U+04F9", <<"U+04F8">>>>, <<"U+04FB", <<"U+04FA">>>>,
      <<"U+04FD", <<"U+04FC">>>>, <<"U+04FF", <<"U+04FE">>>>,
      <<"U+0501", <<"U+0500">>>>, <<"U+0503", <<"U+0502">>>>,
      <<"U+0505", <<"U+0504">>>>, <<"U+0507", <<"U+0506">>>>,
      <<"U+0509", <<"U+0508">>>>, <<"U+050B", <<"U+050A">>>>,
      <<"U+050D", <<"U+050C">>>>, <<"U+050F", <<"U+050E">>>>,
      <<"U+0511", <<"U+0510">>>>, <<"U+0513", <<"U+0512">>>>,
      <<"U+0515", <<"U+0514">>>>, <<"U+0517", <<"U+0516">>>>,
      <<"U+0519", <<"U+0518">>>>, <<"U+051B", <<"U+051A">>>>,
      <<"U+051D", <<"U+051C">>>>, <<"U+051F", <<"U+051E">>>>,
      <<"U+0521", <<"U+0520">>>>, <<"U+0523", <<"U+0522">>>>,
      <<"U+0525", <<"U+0524">>>>, <<"U+0527", <<"U+0526">>>>,
      <<"U+0529", <<"U+0528">>>>, <<"U+052B", <<"U+052A">>>>,
      <<"U+052D", <<"U+052C">>>>, <<"U+052F", <<"U+052E">>>>,
      <<"U+0561", <<"U+0531">>>>, <<"U+0562", <<"U+0532">>>>,
      <<"U+0563", <<"U+0533">>>>, <<"U+0564", <<"U+0534">>>>,
      <<"U+0565", <<"U+0535">>>>, <<"U+0566", <<"U+0536">>>>,
      <<"U+0567", <<"U+0537">>>>, <<"U+0568", <<"U+0538">>>>,
      <<"U+0569", <<"U+0539">>>>, <<"U+056A", <<"U+053A">>>>,
      <<"U+056B", <<"U+053B">>>>, <<"U+056C", <<"U+053C">>>>,
      <<"U+056D", <<"U+053D">>>>, <<"U+056E", <<"U+053E">>>>,
      <<"U+056F", <<"U+053F">>>>, <<"U+0570", <<"U+0540">>>>,
      <<"U+0571", <<"U+0541">>>>, <<"U+0572", <<"U+0542">>>>,
      <<"U+0573", <<"U+0543">>>>, <<"U+0574", <<"U+0544">>>>,
      <<"U+0575", <<"U+0545">>>>, <<"U+0576", <<"U+0546">>>>,
      <<"U+0577", <<"U+0547">>>>, <<"U+0578", <<"U+0548">>>>,
      <<"U+0579", <<"U+0549">>>>, <<"U+057A", <<"U+054A">>>>,
      <<"U+057B", <<"U+054B">>>>, <<"U+057C", <<"U+054C">>>>,
      <<"U+057D", <<"U+054D">>>>, <<"U+057E", <<"U+054E">>>>,
      <<"U+057F", <<"U+054F">>>>, <<"U+0580", <<"U+0550">>>>,
      <<"U+0581", <<"U+0551">>>>, <<"U+0582", <<"U+0552">>>>,
      <<"U+0583", <<"U+0553">>>>, <<"U+0584", <<"U+0554">>>>,
      <<"U+0585", <<"U+0555">>>>, <<"U+0586", <<"U+0556">>>>,
      <<"U+0587", <<"U+0535", "U+0552">>>>, <<"U+10D0", <<"U+1C90">>>>,
      <<"U+10D1", <<"U+1C91">>>>, <<"U+10D2", <<"U+1C92">>>>,
      <<"U+10D3", <<"U+1C93">>>>, <<"U+10D4", <<"U+1C94">>>>,
      <<"U+10D5", <<"U+1C95">>>>, <<"U+10D6", <<"U+1C96">>>>,
      <<"U+10D7", <<"U+1C97">>>>, <<"U+10D8", <<"U+1C98">>>>,
      <<"U+10D9", <<"U+1C99">>>>, <<"U+10DA", <<"U+1C9A">>>>,
      <<"U+10DB", <<"U+1C9B">>>>, <<"U+10DC", <<"U+1C9C">>>>,
      <<"U+10DD", <<"U+1C9D">>>>, <<"U+10DE", <<"U+1C9E">>>>,
      <<"U+10DF", <<"U+1C9F">>>>, <<"U+10E0", <<"U+1CA0">>>>,
      <<"U+10E1", <<"U+1CA1">>>>, <<"U+10E2", <<"U+1CA2">>>>,
      <<"U+10E3", <<"U+1CA3">>>>, <<"U+10E4", <<"U+1CA4">>>>,
      <<"U+10E5", <<"U+1CA5">>>>, <<"U+10E6", <<"U+1CA6">>>>,
      <<"U+10E7", <<"U+1CA7">>>>, <<"U+10E8", <<"U+1CA8">>>>,
      <<"U+10E9", <<"U+1CA9">>>>, <<"U+10EA", <<"U+1CAA">>>>,
      <<"U+10EB", <<"U+1CAB">>>>, <<"U+10EC", <<"U+1CAC">>>>,
      <<"U+10ED", <<"U+1CAD">>>>, <<"U+10EE", <<"U+1CAE">>>>,
      <<"U+10EF", <<"U+1CAF">>>>, <<"U+10F0", <<"U+1CB0">>>>,
      <<"U+10F1", <<"U+1CB1">>>>, <<"U+10F2", <<"U+1CB2">>>>,
      <<"U+10F3", <<"U+1CB3">>>>, <<"U+10F4", <<"U+1CB4">>>>,
      <<"U+10F5", <<"U+1CB5">>>>, <<"U+10F6", <<"U+1CB6">>>>,
      <<"U+10F7", <<"U+1CB7">>>>, <<"U+10F8", <<"U+1CB8">>>>,
      <<"U+10F9", <<"U+1CB9">>>>, <<"U+10FA", <<"U+1CBA">>>>,
      <<"U+10FD", <<"U+1CBD">>>>, <<"U+10FE", <<"U+1CBE">>>>,
      <<"U+10FF", <<"U+1CBF">>>>, <<"U+13F8", <<"U+13F0">>>>,
      <<"U+13F9", <<"U+13F1">>>>, <<"U+13FA", <<"U+13F2">>>>,
      <<"U+13FB", <<"U+13F3">>>>, <<"U+13FC", <<"U+13F4">>>>,
      <<"U+13FD", <<"U+13F5">>>>, <<"U+1C80", <<"U+0412">>>>,
      <<"U+1C81", <<"U+0414">>>>, <<"U+1C82", <<"U+041E">>>>,
      <<"U+1C83", <<"U+0421">>>>, <<"U+1C84", <<"U+0422">>>>,
      <<"U+1C85", <<"U+0422">>>>, <<"U+1C86", <<"U+042A">>>>,
      <<"U+1C87", <<"U+0462">>>>, <<"U+1C88", <<"U+A64A">>>>,
      <<"U+1D79", <<"U+A77D">>>>, <<"U+1D7D", <<"U+2C63">>>>,
      <<"U+1D8E", <<"U+A7C6">>>>, <<"U+1E01", <<"U+1E00">>>>,
      <<"U+1E03", <<"U+1E02">>>>, <<"U+1E05", <<"U+1E04">>>>,
      <<"U+1E07", <<"U+1E06">>>>, <<"U+1E09", <<"U+1E08">>>>,
      <<"U+1E0B", <<"U+1E0A">>>>, <<"U+1E0D", <<"U+1E0C">>>>,
      <<"U+1E0F", <<"U+1E0E">>>>, <<"U+1E11", <<"U+1E10">>>>,
      <<"U+1E13", <<"U+1E12">>>>, <<"U+1E15", <<"U+1E14">>>>,
      <<"U+1E17", <<"U+1E16">>>>, <<"U+1E19", <<"U+1E18">>>>,
      <<"U+1E1B", <<"U+1E1A">>>>, <<"U+1E1D", <<"U+1E1C">>>>,
      <<"U+1E1F", <<"U+1E1E">>>>, <<"U+1E21", <<"U+1E20">>>>,
      <<"U+1E23", <<"U+1E22">>>>, <<"U+1E25", <<"U+1E24">>>>,
      <<"U+1E27", <<"U+1E26">>>>, <<"U+1E29", <<"U+1E28">>>>,
      <<"U+1E2B", <<"U+1E2A">>>>, <<"U+1E2D", <<"U+1E2C">>>>,
      <<"U+1E2F", <<"U+1E2E">>>>, <<"U+1E31", <<"U+1E30">>>>,
      <<"U+1E33", <<"U+1E32">>>>, <<"U+1E35", <<"U+1E34">>>>,
      <<"U+1E37", <<"U+1E36">>>>, <<"U+1E39", <<"U+1E38">>>>,
      <<"U+1E3B", <<"U+1E3A">>>>, <<"U+1E3D", <<"U+1E3C">>>>,
      <<"U+1E3F", <<"U+1E3E">>>>, <<"U+1E41", <<"U+1E40">>>>,
      <<"U+1E43", <<"U+1E42">>>>, <<"U+1E45", <<"U+1E44">>>>,
      <<"U+1E47", <<"U+1E46">>>>, <<"U+1E49", <<"U+1E48">>>>,
      <<"U+1E4B", <<"U+1E4A">>>>, <<"U+1E4D", <<"U+1E4C">>>>,
      <<"U+1E4F", <<"U+1E4E">>>>, <<"U+1E51", <<"U+1E50">>>>,
      <<"U+1E53", <<"U+1E52">>>>, <<"U+1E55", <<"U+1E54">>>>,
      <<"U+1E57", <<"U+1E56">>>>, <<"U+1E59", <<"U+1E58">>>>,
      <<"U+1E5B", <<"U+1E5A">>>>, <<"U+1E5D", <<"U+1E5C">>>>,
      <<"U+1E5F", <<"U+1E5E">>>>, <<"U+1E61", <<"U+1E60">>>>,
      <<"U+1E63", <<"U+1E62">>>>, <<"U+1E65", <<"U+1E64">>>>,
      <<"U+1E67", <<"U+1E66">>>>, <<"U+1E69", <<"U+1E68">>>>,
      <<"U+1E6B", <<"U+1E6A">>>>, <<"U+1E6D", <<"U+1E6C">>>>,
      <<"U+1E6F", <<"U+1E6E">>>>, <<"U+1E71", <<"U+1E70">>>>,
      <<"U+1E73", <<"U+1E72">>>>, <<"U+1E75", <<"U+1E74">>>>,
      <<"U+1E77", <<"U+1E76">>>>, <<"U+1E79", <<"U+1E78">>>>,
      <<"U+1E7B", <<"U+1E7A">>>>, <<"U+1E7D", <<"U+1E7C">>>>,
      <<"U+1E7F", <<"U+1E7E">>>>, <<"U+1E81", <<"U+1E80">>>>,
      <<"U+1E83", <<"U+1E82">>>>, <<"U+1E85", <<"U+1E84">>>>,
      <<"U+1E87", <<"U+1E86">>>>, <<"U+1E89", <<"U+1E88">>>>,
      <<"U+1E8B", <<"U+1E8A">>>>, <<"U+1E8D", <<"U+1E8C">>>>,
      <<"U+1E8F", <<"U+1E8E">>>>, <<"U+1E91", <<"U+1E90">>>>,
      <<"U+1E93", <<"U+1E92">>>>, <<"U+1E95", <<"U+1E94">>>>,
      <<"U+1E96", <<"H", "U+0331">>>>, <<"U+1E97", <<"T", "U+0308">>>>,
      <<"U+1E98", <<"W", "U+030A">>>>, <<"U+1E99", <<"Y", "U+030A">>>>,
      <<"U+1E9A", <<"A", "U+02BE">>>>, <<"U+1E9B", <<"U+1E60">>>>,
      <<"U+1EA1", <<"U+1EA0">>>>, <<"U+1EA3", <<"U+1EA2">>>>,
      <<"U+1EA5", <<"U+1EA4">>>>, <<"U+1EA7", <<"U+1EA6">>>>,
      <<"U+1EA9", <<"U+1EA8">>>>, <<"U+1EAB", <<"U+1EAA">>>>,
      <<"U+1EAD", <<"U+1EAC">>>>, <<"U+1EAF", <<"U+1EAE">>>>,
      <<"U+1EB1", <<"U+1EB0">>>>, <<"U+1EB3", <<"U+1EB2">>>>,
      <<"U+1EB5", <<"U+1EB4">>>>, <<"U+1EB7", <<"U+1EB6">>>>,
      <<"U+1EB9", <<"U+1EB8">>>>, <<"U+1EBB", <<"U+1EBA">>>>,
      <<"U+1EBD", <<"U+1EBC">>>>, <<"U+1EBF", <<"U+1EBE">>>>,
      <<"U+1EC1", <<"U+1EC0">>>>, <<"U+1EC3", <<"U+1EC2">>>>,
      <<"U+1EC5", <<"U+1EC4">>>>, <<"U+1EC7", <<"U+1EC6">>>>,
      <<"U+1EC9", <<"U+1EC8">>>>, <<"U+1ECB", <<"U+1ECA">>>>,
      <<"U+1ECD", <<"U+1ECC">>>>, <<"U+1ECF", <<"U+1ECE">>>>,
      <<"U+1ED1", <<"U+1ED0">>>>, <<"U+1ED3", <<"U+1ED2">>>>,
      <<"U+1ED5", <<"U+1ED4">>>>, <<"U+1ED7", <<"U+1ED6">>>>,
      <<"U+1ED9", <<"U+1ED8">>>>, <<"U+1EDB", <<"U+1EDA">>>>,
      <<"U+1EDD", <<"U+1EDC">>>>, <<"U+1EDF", <<"U+1EDE">>>>,
      <<"U+1EE1", <<"U+1EE0">>>>, <<"U+1EE3", <<"U+1EE2">>>>,
      <<"U+1EE5", <<"U+1EE4">>>>, <<"U+1EE7", <<"U+1EE6">>>>,
      <<"U+1EE9", <<"U+1EE8">>>>, <<"U+1EEB", <<"U+1EEA">>>>,
      <<"U+1EED", <<"U+1EEC">>>>, <<"U+1EEF", <<"U+1EEE">>>>,
      <<"U+1EF1", <<"U+1EF0">>>>, <<"U+1EF3", <<"U+1EF2">>>>,
      <<"U+1EF5", <<"U+1EF4">>>>, <<"U+1EF7", <<"U+1EF6">>>>,
      <<"U+1EF9", <<"U+1EF8">>>>, <<"U+1EFB", <<"U+1EFA">>>>,
      <<"U+1EFD", <<"U+1EFC">>>>, <<"U+1EFF", <<"U+1EFE">>>>,
      <<"U+1F00", <<"U+1F08">>>>, <<"U+1F01", <<"U+1F09">>>>,
      <<"U+1F02", <<"U+1F0A">>>>, <<"U+1F03", <<"U+1F0B">>>>,
      <<"U+1F04", <<"U+1F0C">>>>, <<"U+1F05", <<"U+1F0D">>>>,
      <<"U+1F06", <<"U+1F0E">>>>, <<"U+1F07", <<"U+1F0F">>>>,
      <<"U+1F10", <<"U+1F18">>>>, <<"U+1F11", <<"U+1F19">>>>,
      <<"U+1F12", <<"U+1F1A">>>>, <<"U+1F13", <<"U+1F1B">>>>,
      <<"U+1F14", <<"U+1F1C">>>>, <<"U+1F15", <<"U+1F1D">>>>,
      <<"U+1F20", <<"U+1F28">>>>, <<"U+1F21", <<"U+1F29">>>>,
      <<"U+1F22", <<"U+1F2A">>>>, <<"U+1F23", <<"U+1F2B">>>>,
      <<"U+1F24", <<"U+1F2C">>>>, <<"U+1F25", <<"U+1F2D">>>>,
      <<"U+1F26", <<"U+1F2E">>>>, <<"U+1F27", <<"U+1F2F">>>>,
      <<"U+1F30", <<"U+1F38">>>>, <<"U+1F31", <<"U+1F39">>>>,
      <<"U+1F32", <<"U+1F3A">>>>, <<"U+1F33", <<"U+1F3B">>>>,
      <<"U+1F34", <<"U+1F3C">>>>, <<"U+1F35", <<"U+1F3D">>>>,
      <<"U+1F36", <<"U+1F3E">>>>, <<"U+1F37", <<"U+1F3F">>>>,
      <<"U+1F40", <<"U+1F48">>>>, <<"U+1F41", <<"U+1F49">>>>,
      <<"U+1F42", <<"U+1F4A">>>>, <<"U+1F43", <<"U+1F4B">>>>,
      <<"U+1F44", <<"U+1F4C">>>>, <<"U+1F45", <<"U+1F4D">>>>,
      <<"U+1F50", <<"U+03A5", "U+0313">>>>, <<"U+1F51", <<"U+1F59">>>>,
      <<"U+1F52", <<"U+03A5", "U+0313", "U+0300">>>>,
      <<"U+1F53", <<"U+1F5B">>>>,
      <<"U+1F54", <<"U+03A5", "U+0313", "U+0301">>>>,
      <<"U+1F55", <<"U+1F5D">>>>,
      <<"U+1F56", <<"U+03A5", "U+0313", "U+0342">>>>,
      <<"U+1F57", <<"U+1F5F">>>>, <<"U+1F60", <<"U+1F68">>>>,
      <<"U+1F61", <<"U+1F69">>>>, <<"U+1F62", <<"U+1F6A">>>>,
      <<"U+1F63", <<"U+1F6B">>>>, <<"U+1F64", <<"U+1F6C">>>>,
      <<"U+1F65", <<"U+1F6D">>>>, <<"U+1F66", <<"U+1F6E">>>>,
      <<"U+1F67", <<"U+1F6F">>>>, <<"U+1F70", <<"U+1FBA">>>>,
      <<"U+1F71", <<"U+1FBB">>>>, <<"U+1F72", <<"U+1FC8">>>>,
      <<"U+1F73", <<"U+1FC9">>>>, <<"U+1F74", <<"U+1FCA">>>>,
      <<"U+1F75", <<"U+1FCB">>>>, <<"U+1F76", <<"U+1FDA">>>>,
      <<"U+1F77", <<"U+1FDB">>>>, <<"U+1F78", <<"U+1FF8">>>>,
      <<"U+1F79", <<"U+1FF9">>>>, <<"U+1F7A", <<"U+1FEA">>>>,
      <<"U+1F7B", <<"U+1FEB">>>>, <<"U+1F7C", <<"U+1FFA">>>>,
      <<"U+1F7D", <<"U+1FFB">>>>, <<"U+1F80", <<"U+1F08", "U+0399">>>>,
      <<"U+1F81", <<"U+1F09", "U+0399">>>>,
      <<"U+1F82", <<"U+1F0A", "U+0399">>>>,
      <<"U+1F83", <<"U+1F0B", "U+0399">>>>,
      <<"U+1F84", <<"U+1F0C", "U+0399">>>>,
      <<"U+1F85", <<"U+1F0D", "U+0399">>>>,
      <<"U+1F86", <<"U+1F0E", "U+0399">>>>,
      <<"U+1F87", <<"U+1F0F", "U+0399">>>>,
      <<"U+1F88", <<"U+1F08", "U+0399">>>>,
      <<"U+1F89", <<"U+1F09", "U+0399">>>>,
      <<"U+1F8A", <<"U+1F0A", "U+0399">>>>,
      <<"U+1F8B", <<"U+1F0B", "U+0399">>>>,
      <<"U+1F8C", <<"U+1F0C", "U+0399">>>>,
      <<"U+1F8D", <<"U+1F0D", "U+0399">>>>,
      <<"U+1F8E", <<"U+1F0E", "U+0399">>>>,
      <<"U+1F8F", <<"U+1F0F", "U+0399">>>>,
      <<"U+1F90", <<"U+1F28", "U+0399">>>>,
      <<"U+1F91", <<"U+1F29", "U+0399">>>>,
      <<"U+1F92", <<"U+1F2A", "U+0399">>>>,
      <<"U+1F93", <<"U+1F2B", "U+0399">>>>,
      <<"U+1F94", <<"U+1F2C", "U+0399">>>>,
      <<"U+1F95", <<"U+1F2D", "U+0399">>>>,
      <<"U+1F96", <<"U+1F2E", "U+0399">>>>,
      <<"U+1F97", <<"U+1F2F", "U+0399">>>>,
      <<"U+1F98", <<"U+1F28", "U+0399">>>>,
      <<"U+1F99", <<"U+1F29", "U+0399">>>>,
      <<"U+1F9A", <<"U+1F2A", "U+0399">>>>,
      <<"U+1F9B", <<"U+1F2B", "U+0399">>>>,
      <<"U+1F9C", <<"U+1F2C", "U+0399">>>>,
      <<"U+1F9D", <<"U+1F2D", "U+0399">>>>,
      <<"U+1F9E", <<"U+1F2E", "U+0399">>>>,
      <<"U+1F9F", <<"U+1F2F", "U+0399">>>>,
      <<"U+1FA0", <<"U+1F68", "U+0399">>>>,
      <<"U+1FA1", <<"U+1F69", "U+0399">>>>,
      <<"U+1FA2", <<"U+1F6A", "U+0399">>>>,
      <<"U+1FA3", <<"U+1F6B", "U+0399">>>>,
      <<"U+1FA4", <<"U+1F6C", "U+0399">>>>,
      <<"U+1FA5", <<"U+1F6D", "U+0399">>>>,
      <<"U+1FA6", <<"U+1F6E", "U+0399">>>>,
      <<"U+1FA7", <<"U+1F6F", "U+0399">>>>,
      <<"U+1FA8", <<"U+1F68", "U+0399">>>>,
      <<"U+1FA9", <<"U+1F69", "U+0399">>>>,
      <<"U+1FAA", <<"U+1F6A", "U+0399">>>>,
      <<"U+1FAB", <<"U+1F6B", "U+0399">>>>,
      <<"U+1FAC", <<"U+1F6C", "U+0399">>>>,
      <<"U+1FAD", <<"U+1F6D", "U+0399">>>>,
      <<"U+1FAE", <<"U+1F6E", "U+0399">>>>,
      <<"U+1FAF", <<"U+1F6F", "U+0399">>>>, <<"U+1FB0", <<"U+1FB8">>>>,
      <<"U+1FB1", <<"U+1FB9">>>>, <<"U+1FB2", <<"U+1FBA", "U+0399">>>>,
      <<"U+1FB3", <<"U+0391", "U+0399">>>>,
      <<"U+1FB4", <<"U+0386", "U+0399">>>>,
      <<"U+1FB6", <<"U+0391", "U+0342">>>>,
      <<"U+1FB7", <<"U+0391", "U+0342", "U+0399">>>>,
      <<"U+1FBC", <<"U+0391", "U+0399">>>>, <<"U+1FBE", <<"U+0399">>>>,
      <<"U+1FC2", <<"U+1FCA", "U+0399">>>>,
      <<"U+1FC3", <<"U+0397", "U+0399">>>>,
      <<"U+1FC4", <<"U+0389", "U+0399">>>>,
      <<"U+1FC6", <<"U+0397", "U+0342">>>>,
      <<"U+1FC7", <<"U+0397", "U+0342", "U+0399">>>>,
      <<"U+1FCC", <<"U+0397", "U+0399">>>>, <<"U+1FD0", <<"U+1FD8">>>>,
      <<"U+1FD1", <<"U+1FD9">>>>,
      <<"U+1FD2", <<"U+0399", "U+0308", "U+0300">>>>,
      <<"U+1FD3", <<"U+0399", "U+0308", "U+0301">>>>,
      <<"U+1FD6", <<"U+0399", "U+0342">>>>,
      <<"U+1FD7", <<"U+0399", "U+0308", "U+0342">>>>,
      <<"U+1FE0", <<"U+1FE8">>>>, <<"U+1FE1", <<"U+1FE9">>>>,
      <<"U+1FE2", <<"U+03A5", "U+0308", "U+0300">>>>,
      <<"U+1FE3", <<"U+03A5", "U+0308", "U+0301">>>>,
      <<"U+1FE4", <<"U+03A1", "U+0313">>>>, <<"U+1FE5", <<"U+1FEC">>>>,
      <<"U+1FE6", <<"U+03A5", "U+0342">>>>,
      <<"U+1FE7", <<"U+03A5", "U+0308", "U+0342">>>>,
      <<"U+1FF2", <<"U+1FFA", "U+0399">>>>,
      <<"U+1FF3", <<"U+03A9", "U+0399">>>>,
      <<"U+1FF4", <<"U+038F", "U+0399">>>>,
      <<"U+1FF6", <<"U+03A9", "U+0342">>>>,
      <<"U+1FF7", <<"U+03A9", "U+0342", "U+0399">>>>,
      <<"U+1FFC", <<"U+03A9", "U+0399">>>>, <<"U+214E", <<"U+2132">>>>,
      <<"U+2170", <<"U+2160">>>>, <<"U+2171", <<"U+2161">>>>,
      <<"U+2172", <<"U+2162">>>>, <<"U+2173", <<"U+2163">>>>,
      <<"U+2174", <<"U+2164">>>>, <<"U+2175", <<"U+2165">>>>,
      <<"U+2176", <<"U+2166">>>>, <<"U+2177", <<"U+2167">>>>,
      <<"U+2178", <<"U+2168">>>>, <<"U+2179", <<"U+2169">>>>,
      <<"U+217A", <<"U+216A">>>>, <<"U+217B", <<"U+216B">>>>,
      <<"U+217C", <<"U+216C">>>>, <<"U+217D", <<"U+216D">>>>,
      <<"U+217E", <<"U+216E">>>>, <<"U+217F", <<"U+216F">>>>,
      <<"U+2184", <<"U+2183">>>>, <<"U+24D0", <<"U+24B6">>>>,
      <<"U+24D1", <<"U+24B7">>>>, <<"U+24D2", <<"U+24B8">>>>,
      <<"U+24D3", <<"U+24B9">>>>, <<"U+24D4", <<"U+24BA">>>>,
      <<"U+24D5", <<"U+24BB">>>>, <<"U+24D6", <<"U+24BC">>>>,
      <<"U+24D7", <<"U+24BD">>>>, <<"U+24D8", <<"U+24BE">>>>,
      <<"U+24D9", <<"U+24BF">>>>, <<"U+24DA", <<"U+24C0">>>>,
      <<"U+24DB", <<"U+24C1">>>>, <<"U+24DC", <<"U+24C2">>>>,
      <<"U+24DD", <<"U+24C3">>>>, <<"U+24DE", <<"U+24C4">>>>,
      <<"U+24DF", <<"U+24C5">>>>, <<"U+24E0", <<"U+24C6">>>>,
      <<"U+24E1", <<"U+24C7">>>>, <<"U+24E2", <<"U+24C8">>>>,
      <<"U+24E3", <<"U+24C9">>>>, <<"U+24E4", <<"U+24CA">>>>,
      <<"U+24E5", <<"U+24CB">>>>, <<"U+24E6", <<"U+24CC">>>>,
      <<"U+24E7", <<"U+24CD">>>>, <<"U+24E8", <<"U+24CE">>>>,
      <<"U+24E9", <<"U+24CF">>>>, <<"U+2C30", <<"U+2C00">>>>,
      <<"U+2C31", <<"U+2C01">>>>, <<"U+2C32", <<"U+2C02">>>>,
      <<"U+2C33", <<"U+2C03">>>>, <<"U+2C34", <<"U+2C04">>>>,
      <<"U+2C35", <<"U+2C05">>>>, <<"U+2C36", <<"U+2C06">>>>,
      <<"U+2C37", <<"U+2C07">>>>, <<"U+2C38", <<"U+2C08">>>>,
      <<"U+2C39", <<"U+2C09">>>>, <<"U+2C3A", <<"U+2C0A">>>>,
      <<"U+2C3B", <<"U+2C0B">>>>, <<"U+2C3C", <<"U+2C0C">>>>,
      <<"U+2C3D", <<"U+2C0D">>>>, <<"U+2C3E", <<"U+2C0E">>>>,
      <<"U+2C3F", <<"U+2C0F">>>>, <<"U+2C40", <<"U+2C10">>>>,
      <<"U+2C41", <<"U+2C11">>>>, <<"U+2C42", <<"U+2C12">>>>,
      <<"U+2C43", <<"U+2C13">>>>, <<"U+2C44", <<"U+2C14">>>>,
      <<"U+2C45", <<"U+2C15">>>>, <<"U+2C46", <<"U+2C16">>>>,
      <<"U+2C47", <<"U+2C17">>>>, <<"U+2C48", <<"U+2C18">>>>,
      <<"U+2C49", <<"U+2C19">>>>, <<"U+2C4A", <<"U+2C1A">>>>,
      <<"U+2C4B", <<"U+2C1B">>>>, <<"U+2C4C", <<"U+2C1C">>>>,
      <<"U+2C4D", <<"U+2C1D">>>>, <<"U+2C4E", <<"U+2C1E">>>>,
      <<"U+2C4F", <<"U+2C1F">>>>, <<"U+2C50", <<"U+2C20">>>>,
      <<"U+2C51", <<"U+2C21">>>>, <<"U+2C52", <<"U+2C22">>>>,
      <<"U+2C53", <<"U+2C23">>>>, <<"U+2C54", <<"U+2C24">>>>,
      <<"U+2C55", <<"U+2C25">>>>, <<"U+2C56", <<"U+2C26">>>>,
      <<"U+2C57", <<"U+2C27">>>>, <<"U+2C58", <<"U+2C28">>>>,
      <<"U+2C59", <<"U+2C29">>>>, <<"U+2C5A", <<"U+2C2A">>>>,
      <<"U+2C5B", <<"U+2C2B">>>>, <<"U+2C5C", <<"U+2C2C">>>>,
      <<"U+2C5D", <<"U+2C2D">>>>, <<"U+2C5E", <<"U+2C2E">>>>,
      <<"U+2C5F", <<"U+2C2F">>>>, <<"U+2C61", <<"U+2C60">>>>,
      <<"U+2C65", <<"U+023A">>>>, <<"U+2C66", <<"U+023E">>>>,
      <<"U+2C68", <<"U+2C67">>>>, <<"U+2C6A", <<"U+2C69">>>>,
      <<"U+2C6C", <<"U+2C6B">>>>, <<"U+2C73", <<"U+2C72">>>>,
      <<"U+2C76", <<"U+2C75">>>>, <<"U+2C81", <<"U+2C80">>>>,
      <<"U+2C83", <<"U+2C82">>>>, <<"U+2C85", <<"U+2C84">>>>,
      <<"U+2C87", <<"U+2C86">>>>, <<"U+2C89", <<"U+2C88">>>>,
      <<"U+2C8B", <<"U+2C8A">>>>, <<"U+2C8D", <<"U+2C8C">>>>,
      <<"U+2C8F", <<"U+2C8E">>>>, <<"U+2C91", <<"U+2C90">>>>,
      <<"U+2C93", <<"U+2C92">>>>, <<"U+2C95", <<"U+2C94">>>>,
      <<"U+2C97", <<"U+2C96">>>>, <<"U+2C99", <<"U+2C98">>>>,
      <<"U+2C9B", <<"U+2C9A">>>>, <<"U+2C9D", <<"U+2C9C">>>>,
      <<"U+2C9F", <<"U+2C9E">>>>, <<"U+2CA1", <<"U+2CA0">>>>,
      <<"U+2CA3", <<"U+2CA2">>>>, <<"U+2CA5", <<"U+2CA4">>>>,
      <<"U+2CA7", <<"U+2CA6">>>>, <<"U+2CA9", <<"U+2CA8">>>>,
      <<"U+2CAB", <<"U+2CAA">>>>, <<"U+2CAD", <<"U+2CAC">>>>,
      <<"U+2CAF", <<"U+2CAE">>>>, <<"U+2CB1", <<"U+2CB0">>>>,
      <<"U+2CB3", <<"U+2CB2">>>>, <<"U+2CB5", <<"U+2CB4">>>>,
      <<"U+2CB7", <<"U+2CB6">>>>, <<"U+2CB9", <<"U+2CB8">>>>,
      <<"U+2CBB", <<"U+2CBA">>>>, <<"U+2CBD", <<"U+2CBC">>>>,
      <<"U+2CBF", <<"U+2CBE">>>>, <<"U+2CC1", <<"U+2CC0">>>>,
      <<"U+2CC3", <<"U+2CC2">>>>, <<"U+2CC5", <<"U+2CC4">>>>,
      <<"U+2CC7", <<"U+2CC6">>>>, <<"U+2CC9", <<"U+2CC8">>>>,
      <<"U+2CCB", <<"U+2CCA">>>>, <<"U+2CCD", <<"U+2CCC">>>>,
      <<"U+2CCF", <<"U+2CCE">>>>, <<"U+2CD1", <<"U+2CD0">>>>,
      <<"U+2CD3", <<"U+2CD2">>>>, <<"U+2CD5", <<"U+2CD4">>>>,
      <<"U+2CD7", <<"U+2CD6">>>>, <<"U+2CD9", <<"U+2CD8">>>>,
      <<"U+2CDB", <<"U+2CDA">>>>, <<"U+2CDD", <<"U+2CDC">>>>,
      <<"U+2CDF", <<"U+2CDE">>>>, <<"U+2CE1", <<"U+2CE0">>>>,
      <<"U+2CE3", <<"U+2CE2">>>>, <<"U+2CEC", <<"U+2CEB">>>>,
      <<"U+2CEE", <<"U+2CED">>>>, <<"U+2CF3", <<"U+2CF2">>>>,
      <<"U+2D00", <<"U+10A0">>>>, <<"U+2D01", <<"U+10A1">>>>,
      <<"U+2D02", <<"U+10A2">>>>, <<"U+2D03", <<"U+10A3">>>>,
      <<"U+2D04", <<"U+10A4">>>>, <<"U+2D05", <<"U+10A5">>>>,
      <<"U+2D06", <<"U+10A6">>>>, <<"U+2D07", <<"U+10A7">>>>,
      <<"U+2D08", <<"U+10A8">>>>, <<"U+2D09", <<"U+10A9">>>>,
      <<"U+2D0A", <<"U+10AA">>>>, <<"U+2D0B", <<"U+10AB">>>>,
      <<"U+2D0C", <<"U+10AC">>>>, <<"U+2D0D", <<"U+10AD">>>>,
      <<"U+2D0E", <<"U+10AE">>>>, <<"U+2D0F", <<"U+10AF">>>>,
      <<"U+2D10", <<"U+10B0">>>>, <<"U+2D11", <<"U+10B1">>>>,
      <<"U+2D12", <<"U+10B2">>>>, <<"U+2D13", <<"U+10B3">>>>,
      <<"U+2D14", <<"U+10B4">>>>, <<"U+2D15", <<"U+10B5">>>>,
      <<"U+2D16", <<"U+10B6">>>>, <<"U+2D17", <<"U+10B7">>>>,
      <<"U+2D18", <<"U+10B8">>>>, <<"U+2D19", <<"U+10B9">>>>,
      <<"U+2D1A", <<"U+10BA">>>>, <<"U+2D1B", <<"U+10BB">>>>,
      <<"U+2D1C", <<"U+10BC">>>>, <<"U+2D1D", <<"U+10BD">>>>,
      <<"U+2D1E", <<"U+10BE">>>>, <<"U+2D1F", <<"U+10BF">>>>,
      <<"U+2D20", <<"U+10C0">>>>, <<"U+2D21", <<"U+10C1">>>>,
      <<"U+2D22", <<"U+10C2">>>>, <<"U+2D23", <<"U+10C3">>>>,
      <<"U+2D24", <<"U+10C4">>>>, <<"U+2D25", <<"U+10C5">>>>,
      <<"U+2D27", <<"U+10C7">>>>, <<"U+2D2D", <<"U+10CD">>>>,
      <<"U+A641", <<"U+A640">>>>, <<"U+A643", <<"U+A642">>>>,
      <<"U+A645", <<"U+A644">>>>, <<"U+A647", <<"U+A646">>>>,
      <<"U+A649", <<"U+A648">>>>, <<"U+A64B", <<"U+A64A">>>>,
      <<"U+A64D", <<"U+A64C">>>>, <<"U+A64F", <<"U+A64E">>>>,
      <<"U+A651", <<"U+A650">>>>, <<"U+A653", <<"U+A652">>>>,
      <<"U+A655", <<"U+A654">>>>, <<"U+A657", <<"U+A656">>>>,
      <<"U+A659", <<"U+A658">>>>, <<"U+A65B", <<"U+A65A">>>>,
      <<"U+A65D", <<"U+A65C">>>>, <<"U+A65F", <<"U+A65E">>>>,
      <<"U+A661", <<"U+A660">>>>, <<"U+A663", <<"U+A662">>>>,
      <<"U+A665", <<"U+A664">>>>, <<"U+A667", <<"U+A666">>>>,
      <<"U+A669", <<"U+A668">>>>, <<"U+A66B", <<"U+A66A">>>>,
      <<"U+A66D", <<"U+A66C">>>>, <<"U+A681", <<"U+A680">>>>,
      <<"U+A683", <<"U+A682">>>>, <<"U+A685", <<"U+A684">>>>,
      <<"U+A687", <<"U+A686">>>>, <<"U+A689", <<"U+A688">>>>,
      <<"U+A68B", <<"U+A68A">>>>, <<"U+A68D", <<"U+A68C">>>>,
      <<"U+A68F", <<"U+A68E">>>>, <<"U+A691", <<"U+A690">>>>,
      <<"U+A693", <<"U+A692">>>>, <<"U+A695", <<"U+A694">>>>,
      <<"U+A697", <<"U+A696">>>>, <<"U+A699", <<"U+A698">>>>,
      <<"U+A69B", <<"U+A69A">>>>, <<"U+A723", <<"U+A722">>>>,
      <<"U+A725", <<"U+A724">>>>, <<"U+A727", <<"U+A726">>>>,
      <<"U+A729", <<"U+A728">>>>, <<"U+A72B", <<"U+A72A">>>>,
      <<"U+A72D", <<"U+A72C">>>>, <<"U+A72F", <<"U+A72E">>>>,
      <<"U+A733", <<"U+A732">>>>, <<"U+A735", <<"U+A734">>>>,
      <<"U+A737", <<"U+A736">>>>, <<"U+A739", <<"U+A738">>>>,
      <<"U+A73B", <<"U+A73A">>>>, <<"U+A73D", <<"U+A73C">>>>,
      <<"U+A73F", <<"U+A73E">>>>, <<"U+A741", <<"U+A740">>>>,
      <<"U+A743", <<"U+A742">>>>, <<"U+A745", <<"U+A744">>>>,
      <<"U+A747", <<"U+A746">>>>, <<"U+A749", <<"U+A748">>>>,
      <<"U+A74B", <<"U+A74A">>>>, <<"U+A74D", <<"U+A74C">>>>,
      <<"U+A74F", <<"U+A74E">>>>, <<"U+A751", <<"U+A750">>>>,
      <<"U+A753", <<"U+A752">>>>, <<"U+A755", <<"U+A754">>>>,
      <<"U+A757", <<"U+A756">>>>, <<"U+A759", <<"U+A758">>>>,
      <<"U+A75B", <<"U+A75A">>>>, <<"U+A75D", <<"U+A75C">>>>,
      <<"U+A75F", <<"U+A75E">>>>, <<"U+A761", <<"U+A760">>>>,
      <<"U+A763", <<"U+A762">>>>, <<"U+A765", <<"U+A764">>>>,
      <<"U+A767", <<"U+A766">>>>, <<"U+A769", <<"U+A768">>>>,
      <<"U+A76B", <<"U+A76A">>>>, <<"U+A76D", <<"U+A76C">>>>,
      <<"U+A76F", <<"U+A76E">>>>, <<"U+A77A", <<"U+A779">>>>,
      <<"U+A77C", <<"U+A77B">>>>, <<"U+A77F", <<"U+A77E">>>>,
      <<"U+A781", <<"U+A780">>>>, <<"U+A783", <<"U+A782">>>>,
      <<"U+A785", <<"U+A784">>>>, <<"U+A787", <<"U+A786">>>>,
      <<"U+A78C", <<"U+A78B">>>>, <<"U+A791", <<"U+A790">>>>,
      <<"U+A793", <<"U+A792">>>>, <<"U+A794", <<"U+A7C4">>>>,
      <<"U+A797", <<"U+A796">>>>, <<"U+A799", <<"U+A798">>>>,
      <<"U+A79B", <<"U+A79A">>>>, <<"U+A79D", <<"U+A79C">>>>,
      <<"U+A79F", <<"U+A79E">>>>, <<"U+A7A1", <<"U+A7A0">>>>,
      <<"U+A7A3", <<"U+A7A2">>>>, <<"U+A7A5", <<"U+A7A4">>>>,
      <<"U+A7A7", <<"U+A7A6">>>>, <<"U+A7A9", <<"U+A7A8">>>>,
      <<"U+A7B5", <<"U+A7B4">>>>, <<"U+A7B7", <<"U+A7B6">>>>,
      <<"U+A7B9", <<"U+A7B8">>>>, <<"U+A7BB", <<"U+A7BA">>>>,
      <<"U+A7BD", <<"U+A7BC">>>>, <<"U+A7BF", <<"U+A7BE">>>>,
      <<"U+A7C1", <<"U+A7C0">>>>, <<"U+A7C3", <<"U+A7C2">>>>,
      <<"U+A7C8", <<"U+A7C7">>>>, <<"U+A7CA", <<"U+A7C9">>>>,
      <<"U+A7D1", <<"U+A7D0">>>>, <<"U+A7D7", <<"U+A7D6">>>>,
      <<"U+A7D9", <<"U+A7D8">>>>, <<"U+A7F6", <<"U+A7F5">>>>,
      <<"U+AB53", <<"U+A7B3">>>>, <<"U+AB70", <<"U+13A0">>>>,
      <<"U+AB71", <<"U+13A1">>>>, <<"U+AB72", <<"U+13A2">>>>,
      <<"U+AB73", <<"U+13A3">>>>, <<"U+AB74", <<"U+13A4">>>>,
      <<"U+AB75", <<"U+13A5">>>>, <<"U+AB76", <<"U+13A6">>>>,
      <<"U+AB77", <<"U+13A7">>>>, <<"U+AB78", <<"U+13A8">>>>,
      <<"U+AB79", <<"U+13A9">>>>, <<"U+AB7A", <<"U+13AA">>>>,
      <<"U+AB7B", <<"U+13AB">>>>, <<"U+AB7C", <<"U+13AC">>>>,
      <<"U+AB7D", <<"U+13AD">>>>, <<"U+AB7E", <<"U+13AE">>>>,
      <<"U+AB7F", <<"U+13AF">>>>, <<"U+AB80", <<"U+13B0">>>>,
      <<"U+AB81", <<"U+13B1">>>>, <<"U+AB82", <<"U+13B2">>>>,
      <<"U+AB83", <<"U+13B3">>>>, <<"U+AB84", <<"U+13B4">>>>,
      <<"U+AB85", <<"U+13B5">>>>, <<"U+AB86", <<"U+13B6">>>>,
      <<"U+AB87", <<"U+13B7">>>>, <<"U+AB88", <<"U+13B8">>>>,
      <<"U+AB89", <<"U+13B9">>>>, <<"U+AB8A", <<"U+13BA">>>>,
      <<"U+AB8B", <<"U+13BB">>>>, <<"U+AB8C", <<"U+13BC">>>>,
      <<"U+AB8D", <<"U+13BD">>>>, <<"U+AB8E", <<"U+13BE">>>>,
      <<"U+AB8F", <<"U+13BF">>>>, <<"U+AB90", <<"U+13C0">>>>,
      <<"U+AB91", <<"U+13C1">>>>, <<"U+AB92", <<"U+13C2">>>>,
      <<"U+AB93", <<"U+13C3">>>>, <<"U+AB94", <<"U+13C4">>>>,
      <<"U+AB95", <<"U+13C5">>>>, <<"U+AB96", <<"U+13C6">>>>,
      <<"U+AB97", <<"U+13C7">>>>, <<"U+AB98", <<"U+13C8">>>>,
      <<"U+AB99", <<"U+13C9">>>>, <<"U+AB9A", <<"U+13CA">>>>,
      <<"U+AB9B", <<"U+13CB">>>>, <<"U+AB9C", <<"U+13CC">>>>,
      <<"U+AB9D", <<"U+13CD">>>>, <<"U+AB9E", <<"U+13CE">>>>,
      <<"U+AB9F", <<"U+13CF">>>>, <<"U+ABA0", <<"U+13D0">>>>,
      <<"U+ABA1", <<"U+13D1">>>>, <<"U+ABA2", <<"U+13D2">>>>,
      <<"U+ABA3", <<"U+13D3">>>>, <<"U+ABA4", <<"U+13D4">>>>,
      <<"U+ABA5", <<"U+13D5">>>>, <<"U+ABA6", <<"U+13D6">>>>,
      <<"U+ABA7", <<"U+13D7">>>>, <<"U+ABA8", <<"U+13D8">>>>,
      <<"U+ABA9", <<"U+13D9">>>>, <<"U+ABAA", <<"U+13DA">>>>,
      <<"U+ABAB", <<"U+13DB">>>>, <<"U+ABAC", <<"U+13DC">>>>,
      <<"U+ABAD", <<"U+13DD">>>>, <<"U+ABAE", <<"U+13DE">>>>,
      <<"U+ABAF", <<"U+13DF">>>>, <<"U+ABB0", <<"U+13E0">>>>,
      <<"U+ABB1", <<"U+13E1">>>>, <<"U+ABB2", <<"U+13E2">>>>,
      <<"U+ABB3", <<"U+13E3">>>>, <<"U+ABB4", <<"U+13E4">>>>,
      <<"U+ABB5", <<"U+13E5">>>>, <<"U+ABB6", <<"U+13E6">>>>,
      <<"U+ABB7", <<"U+13E7">>>>, <<"U+ABB8", <<"U+13E8">>>>,
      <<"U+ABB9", <<"U+13E9">>>>, <<"U+ABBA", <<"U+13EA">>>>,
      <<"U+ABBB", <<"U+13EB">>>>, <<"U+ABBC", <<"U+13EC">>>>,
      <<"U+ABBD", <<"U+13ED">>>>, <<"U+ABBE", <<"U+13EE">>>>,
      <<"U+ABBF", <<"U+13EF">>>>, <<"U+FB00", <<"F", "F">>>>,
      <<"U+FB01", <<"F", "I">>>>, <<"U+FB02", <<"F", "L">>>>,
      <<"U+FB03", <<"F", "F", "I">>>>, <<"U+FB04", <<"F", "F", "L">>>>,
      <<"U+FB05", <<"S", "T">>>>, <<"U+FB06", <<"S", "T">>>>,
      <<"U+FB13", <<"U+0544", "U+0546">>>>,
      <<"U+FB14", <<"U+0544", "U+0535">>>>,
      <<"U+FB15", <<"U+0544", "U+053B">>>>,
      <<"U+FB16", <<"U+054E", "U+0546">>>>,
      <<"U+FB17", <<"U+0544", "U+053D">>>>, <<"U+FF41", <<"U+FF21">>>>,
      <<"U+FF42", <<"U+FF22">>>>, <<"U+FF43", <<"U+FF23">>>>,
      <<"U+FF44", <<"U+FF24">>>>, <<"U+FF45", <<"U+FF25">>>>,
      <<"U+FF46", <<"U+FF26">>>>, <<"U+FF47", <<"U+FF27">>>>,
      <<"U+FF48", <<"U+FF28">>>>, <<"U+FF49", <<"U+FF29">>>>,
      <<"U+FF4A", <<"U+FF2A">>>>, <<"U+FF4B", <<"U+FF2B">>>>,
      <<"U+FF4C", <<"U+FF2C">>>>, <<"U+FF4D", <<"U+FF2D">>>>,
      <<"U+FF4E", <<"U+FF2E">>>>, <<"U+FF4F", <<"U+FF2F">>>>,
      <<"U+FF50", <<"U+FF30">>>>, <<"U+FF51", <<"U+FF31">>>>,
      <<"U+FF52", <<"U+FF32">>>>, <<"U+FF53", <<"U+FF33">>>>,
      <<"U+FF54", <<"U+FF34">>>>, <<"U+FF55", <<"U+FF35">>>>,
      <<"U+FF56", <<"U+FF36">>>>, <<"U+FF57", <<"U+FF37">>>>,
      <<"U+FF58", <<"U+FF38">>>>, <<"U+FF59", <<"U+FF39">>>>,
      <<"U+FF5A", <<"U+FF3A">>>>, <<"U+10428", <<"U+10400">>>>,
      <<"U+10429", <<"U+10401">>>>, <<"U+1042A", <<"U+10402">>>>,
      <<"U+1042B", <<"U+10403">>>>, <<"U+1042C", <<"U+10404">>>>,
      <<"U+1042D", <<"U+10405">>>>, <<"U+1042E", <<"U+10406">>>>,
      <<"U+1042F", <<"U+10407">>>>, <<"U+10430", <<"U+10408">>>>,
      <<"U+10431", <<"U+10409">>>>, <<"U+10432", <<"U+1040A">>>>,
      <<"U+10433", <<"U+1040B">>>>, <<"U+10434", <<"U+1040C">>>>,
      <<"U+10435", <<"U+1040D">>>>, <<"U+10436", <<"U+1040E">>>>,
      <<"U+10437", <<"U+1040F">>>>, <<"U+10438", <<"U+10410">>>>,
      <<"U+10439", <<"U+10411">>>>, <<"U+1043A", <<"U+10412">>>>,
      <<"U+1043B", <<"U+10413">>>>, <<"U+1043C", <<"U+10414">>>>,
      <<"U+1043D", <<"U+10415">>>>, <<"U+1043E", <<"U+10416">>>>,
      <<"U+1043F", <<"U+10417">>>>, <<"U+10440", <<"U+10418">>>>,
      <<"U+10441", <<"U+10419">>>>, <<"U+10442", <<"U+1041A">>>>,
      <<"U+10443", <<"U+1041B">>>>, <<"U+10444", <<"U+1041C">>>>,
      <<"U+10445", <<"U+1041D">>>>, <<"U+10446", <<"U+1041E">>>>,
      <<"U+10447", <<"U+1041F">>>>, <<"U+10448", <<"U+10420">>>>,
      <<"U+10449", <<"U+10421">>>>, <<"U+1044A", <<"U+10422">>>>,
      <<"U+1044B", <<"U+10423">>>>, <<"U+1044C", <<"U+10424">>>>,
      <<"U+1044D", <<"U+10425">>>>, <<"U+1044E", <<"U+10426">>>>,
      <<"U+1044F", <<"U+10427">>>>, <<"U+104D8", <<"U+104B0">>>>,
      <<"U+104D9", <<"U+104B1">>>>, <<"U+104DA", <<"U+104B2">>>>,
      <<"U+104DB", <<"U+104B3">>>>, <<"U+104DC", <<"U+104B4">>>>,
      <<"U+104DD", <<"U+104B5">>>>, <<"U+104DE", <<"U+104B6">>>>,
      <<"U+104DF", <<"U+104B7">>>>, <<"U+104E0", <<"U+104B8">>>>,
      <<"U+104E1", <<"U+104B9">>>>, <<"U+104E2", <<"U+104BA">>>>,
      <<"U+104E3", <<"U+104BB">>>>, <<"U+104E4", <<"U+104BC">>>>,
      <<"U+104E5", <<"U+104BD">>>>, <<"U+104E6", <<"U+104BE">>>>,
      <<"U+104E7", <<"U+104BF">>>>, <<"U+104E8", <<"U+104C0">>>>,
      <<"U+104E9", <<"U+104C1">>>>, <<"U+104EA", <<"U+104C2">>>>,
      <<"U+104EB", <<"U+104C3">>>>, <<"U+104EC", <<"U+104C4">>>>,
      <<"U+104ED", <<"U+104C5">>>>, <<"U+104EE", <<"U+104C6">>>>,
      <<"U+104EF", <<"U+104C7">>>>, <<"U+104F0", <<"U+104C8">>>>,
      <<"U+104F1", <<"U+104C9">>>>, <<"U+104F2", <<"U+104CA">>>>,
      <<"U+104F3", <<"U+104CB">>>>, <<"U+104F4", <<"U+104CC">>>>,
      <<"U+104F5", <<"U+104CD">>>>, <<"U+104F6", <<"U+104CE">>>>,
      <<"U+104F7", <<"U+104CF">>>>, <<"U+104F8", <<"U+104D0">>>>,
      <<"U+104F9", <<"U+104D1">>>>, <<"U+104FA", <<"U+104D2">>>>,
      <<"U+104FB", <<"U+104D3">>>>, <<"U+10597", <<"U+10570">>>>,
      <<"U+10598", <<"U+10571">>>>, <<"U+10599", <<"U+10572">>>>,
      <<"U+1059A", <<"U+10573">>>>, <<"U+1059B", <<"U+10574">>>>,
      <<"U+1059C", <<"U+10575">>>>, <<"U+1059D", <<"U+10576">>>>,
      <<"U+1059E", <<"U+10577">>>>, <<"U+1059F", <<"U+10578">>>>,
      <<"U+105A0", <<"U+10579">>>>, <<"U+105A1", <<"U+1057A">>>>,
      <<"U+105A3", <<"U+1057C">>>>, <<"U+105A4", <<"U+1057D">>>>,
      <<"U+105A5", <<"U+1057E">>>>, <<"U+105A6", <<"U+1057F">>>>,
      <<"U+105A7", <<"U+10580">>>>, <<"U+105A8", <<"U+10581">>>>,
      <<"U+105A9", <<"U+10582">>>>, <<"U+105AA", <<"U+10583">>>>,
      <<"U+105AB", <<"U+10584">>>>, <<"U+105AC", <<"U+10585">>>>,
      <<"U+105AD", <<"U+10586">>>>, <<"U+105AE", <<"U+10587">>>>,
      <<"U+105AF", <<"U+10588">>>>, <<"U+105B0", <<"U+10589">>>>,
      <<"U+105B1", <<"U+1058A">>>>, <<"U+105B3", <<"U+1058C">>>>,
      <<"U+105B4", <<"U+1058D">>>>, <<"U+105B5", <<"U+1058E">>>>,
      <<"U+105B6", <<"U+1058F">>>>, <<"U+105B7", <<"U+10590">>>>,
      <<"U+105B8", <<"U+10591">>>>, <<"U+105B9", <<"U+10592">>>>,
      <<"U+105BB", <<"U+10594">>>>, <<"U+105BC", <<"U+10595">>>>,
      <<"U+10CC0", <<"U+10C80">>>>, <<"U+10CC1", <<"U+10C81">>>>,
      <<"U+10CC2", <<"U+10C82">>>>, <<"U+10CC3", <<"U+10C83">>>>,
      <<"U+10CC4", <<"U+10C84">>>>, <<"U+10CC5", <<"U+10C85">>>>,
      <<"U+10CC6", <<"U+10C86">>>>, <<"U+10CC7", <<"U+10C87">>>>,
      <<"U+10CC8", <<"U+10C88">>>>, <<"U+10CC9", <<"U+10C89">>>>,
      <<"U+10CCA", <<"U+10C8A">>>>, <<"U+10CCB", <<"U+10C8B">>>>,
      <<"U+10CCC", <<"U+10C8C">>>>, <<"U+10CCD", <<"U+10C8D">>>>,
      <<"U+10CCE", <<"U+10C8E">>>>, <<"U+10CCF", <<"U+10C8F">>>>,
      <<"U+10CD0", <<"U+10C90">>>>, <<"U+10CD1", <<"U+10C91">>>>,
      <<"U+10CD2", <<"U+10C92">>>>, <<"U+10CD3", <<"U+10C93">>>>,
      <<"U+10CD4", <<"U+10C94">>>>, <<"U+10CD5", <<"U+10C95">>>>,
      <<"U+10CD6", <<"U+10C96">>>>, <<"U+10CD7", <<"U+10C97">>>>,
      <<"U+10CD8", <<"U+10C98">>>>, <<"U+10CD9", <<"U+10C99">>>>,
      <<"U+10CDA", <<"U+10C9A">>>>, <<"U+10CDB", <<"U+10C9B">>>>,
      <<"U+10CDC", <<"U+10C9C">>>>, <<"U+10CDD", <<"U+10C9D">>>>,
      <<"U+10CDE", <<"U+10C9E">>>>, <<"U+10CDF", <<"U+10C9F">>>>,
      <<"U+10CE0", <<"U+10CA0">>>>, <<"U+10CE1", <<"U+10CA1">>>>,
      <<"U+10CE2", <<"U+10CA2">>>>, <<"U+10CE3", <<"U+10CA3">>>>,
      <<"U+10CE4", <<"U+10CA4">>>>, <<"U+10CE5", <<"U+10CA5">>>>,
      <<"U+10CE6", <<"U+10CA6">>>>, <<"U+10CE7", <<"U+10CA7">>>>,
      <<"U+10CE8", <<"U+10CA8">>>>, <<"U+10CE9", <<"U+10CA9">>>>,
      <<"U+10CEA", <<"U+10CAA">>>>, <<"U+10CEB", <<"U+10CAB">>>>,
      <<"U+10CEC", <<"U+10CAC">>>>, <<"U+10CED", <<"U+10CAD">>>>,
      <<"U+10CEE", <<"U+10CAE">>>>, <<"U+10CEF", <<"U+10CAF">>>>,
      <<"U+10CF0", <<"U+10CB0">>>>, <<"U+10CF1", <<"U+10CB1">>>>,
      <<"U+10CF2", <<"U+10CB2">>>>, <<"U+118C0", <<"U+118A0">>>>,
      <<"U+118C1", <<"U+118A1">>>>, <<"U+118C2", <<"U+118A2">>>>,
      <<"U+118C3", <<"U+118A3">>>>, <<"U+118C4", <<"U+118A4">>>>,
      <<"U+118C5", <<"U+118A5">>>>, <<"U+118C6", <<"U+118A6">>>>,
      <<"U+118C7", <<"U+118A7">>>>, <<"U+118C8", <<"U+118A8">>>>,
      <<"U+118C9", <<"U+118A9">>>>, <<"U+118CA", <<"U+118AA">>>>,
      <<"U+118CB", <<"U+118AB">>>>, <<"U+118CC", <<"U+118AC">>>>,
      <<"U+118CD", <<"U+118AD">>>>, <<"U+118CE", <<"U+118AE">>>>,
      <<"U+118CF", <<"U+118AF">>>>, <<"U+118D0", <<"U+118B0">>>>,
      <<"U+118D1", <<"U+118B1">>>>, <<"U+118D2", <<"U+118B2">>>>,
      <<"U+118D3", <<"U+118B3">>>>, <<"U+118D4", <<"U+118B4">>>>,
      <<"U+118D5", <<"U+118B5">>>>, <<"U+118D6", <<"U+118B6">>>>,
      <<"U+118D7", <<"U+118B7">>>>, <<"U+118D8", <<"U+118B8">>>>,
      <<"U+118D9", <<"U+118B9">>>>, <<"U+118DA", <<"U+118BA">>>>,
      <<"U+118DB", <<"U+118BB">>>>, <<"U+118DC", <<"U+118BC">>>>,
      <<"U+118DD", <<"U+118BD">>>>, <<"U+118DE", <<"U+118BE">>>>,
      <<"U+118DF", <<"U+118BF">>>>, <<"U+16E60", <<"U+16E40">>>>,
      <<"U+16E61", <<"U+16E41">>>>, <<"U+16E62", <<"U+16E42">>>>,
      <<"U+16E63", <<"U+16E43">>>>, <<"U+16E64", <<"U+16E44">>>>,
      <<"U+16E65", <<"U+16E45">>>>, <<"U+16E66", <<"U+16E46">>>>,
      <<"U+16E67", <<"U+16E47">>>>, <<"U+16E68", <<"U+16E48">>>>,
      <<"U+16E69", <<"U+16E49">>>>, <<"U+16E6A", <<"U+16E4A">>>>,
      <<"U+16E6B", <<"U+16E4B">>>>, <<"U+16E6C", <<"U+16E4C">>>>,
      <<"U+16E6D", <<"U+16E4D">>>>, <<"U+16E6E", <<"U+16E4E">>>>,
      <<"U+16E6F", <<"U+16E4F">>>>, <<"U+16E70", <<"U+16E50">>>>,
      <<"U+16E71", <<"U+16E51">>>>, <<"U+16E72", <<"U+16E52">>>>,
      <<"U+16E73", <<"U+16E53">>>>, <<"U+16E74", <<"U+16E54">>>>,
      <<"U+16E75", <<"U+16E55">>>>, <<"U+16E76", <<"U+16E56">>>>,
      <<"U+16E77", <<"U+16E57">>>>, <<"U+16E78", <<"U+16E58">>>>,
      <<"U+16E79", <<"U+16E59">>>>, <<"U+16E7A", <<"U+16E5A">>>>,
      <<"U+16E7B", <<"U+16E5B">>>>, <<"U+16E7C", <<"U+16E5C">>>>,
      <<"U+16E7D", <<"U+16E5D">>>>, <<"U+16E7E", <<"U+16E5E">>>>,
      <<"U+16E7F", <<"U+16E5F">>>>, <<"U+1E922", <<"U+1E900">>>>,
      <<"U+1E923", <<"U+1E901">>>>, <<"U+1E924", <<"U+1E902">>>>,
      <<"U+1E925", <<"U+1E903">>>>, <<"U+1E926", <<"U+1E904">>>>,
      <<"U+1E927", <<"U+1E905">>>>, <<"U+1E928", <<"U+1E906">>>>,
      <<"U+1E929", <<"U+1E907">>>>, <<"U+1E92A", <<"U+1E908">>>>,
      <<"U+1E92B", <<"U+1E909">>>>, <<"U+1E92C", <<"U+1E90A">>>>,
      <<"U+1E92D", <<"U+1E90B">>>>, <<"U+1E92E", <<"U+1E90C">>>>,
      <<"U+1E92F", <<"U+1E90D">>>>, <<"U+1E930", <<"U+1E90E">>>>,
      <<"U+1E931", <<"U+1E90F">>>>, <<"U+1E932", <<"U+1E910">>>>,
      <<"U+1E933", <<"U+1E911">>>>, <<"U+1E934", <<"U+1E912">>>>,
      <<"U+1E935", <<"U+1E913">>>>, <<"U+1E936", <<"U+1E914">>>>,
      <<"U+1E937", <<"U+1E915">>>>, <<"U+1E938", <<"U+1E916">>>>,
      <<"U+1E939", <<"U+1E917">>>>, <<"U+1E93A", <<"U+1E918">>>>,
      <<"U+1E93B", <<"U+1E919">>>>, <<"U+1E93C", <<"U+1E91A">>>>,
      <<"U+1E93D", <<"U+1E91B">>>>, <<"U+1E93E", <<"U+1E91C">>>>,
      <<"U+1E93F", <<"U+1E91D">>>>, <<"U+1E940", <<"U+1E91E">>>>,
      <<"U+1E941", <<"U+1E91F">>>>, <<"U+1E942", <<"U+1E920">>>>,
      <<"U+1E943", <<"U+1E921">>>>}

\* The upper-case text of each character that has one.
UpperOf ==
    [c \in {pair[1] : pair \in UpperPairs} |->
        (CHOOSE pair \in UpperPairs : pair[1] = c)[2]]

\* str.upper()
RECURSIVE upper(_)
upper(s) ==
    IF s = <<>> THEN <<>>
    ELSE (IF s[1] \in DOMAIN UpperOf THEN UpperOf[s[1]] ELSE <<s[1]>>)
            \o upper(Tail(s))

\* normalize with the test of the release status left out.
RECURSIVE normalize_unfiltered(_)
normalize_unfiltered(versions) ==
    IF versions = <<>> THEN <<>>
    ELSE <<[version |-> versions[1].version,
            tag |-> IF versions[1].tag = null THEN "" ELSE versions[1].tag[1],
            release_status |-> upper(versions[1].release_status)]>>
             \o normalize_unfiltered(Tail(versions))

\* The loop that builds `norm`: the entries of the response whose upper-cased
\* release status is TRUSTED or RELEASED, the tag None turned into "".
RECURSIVE normalize(_)
normalize(versions) ==
    IF versions = <<>> THEN <<>>
    ELSE LET v       == versions[1]
             tag_str == IF v.tag = null THEN "" ELSE v.tag[1]
             rs      == upper(v.release_status)
         IN  (IF rs \in {TRUSTED, RELEASED}
              THEN <<[version |-> v.version, tag |-> tag_str,
                      release_status |-> rs]>>
              ELSE <<>>) \o normalize(Tail(versions))

\* idx = {ver: i for i, ver in enumerate(order)}: the last position of ver in
\* order (from 0), and NotRanked for a string that is not in it.
idx_get(order, ver) ==
    IF \E i \in 1..Len(order) : order[i] = ver
    THEN (CHOOSE i \in 1..Len(order) :
              order[i] = ver /\ \A j \in (i + 1)..Len(order) : order[j] # ver) - 1
    ELSE NotRanked

\* One step of the stable ascending list.sort(key=...): x goes before the
\* first entry with a strictly larger key.
RECURSIVE insert_by_key(_, _, _)
insert_by_key(sorted, x, order) ==
    IF sorted = <<>> THEN <<x>>
    ELSE IF idx_get(order, x.version) < idx_get(order, sorted[1].version)
         THEN <<x>> \o sorted
    ELSE <<sorted[1]>> \o insert_by_key(Tail(sorted), x, order)

RECURSIVE sort_by_key(_, _, _)
sort_by_key(norm, acc, order) ==
    IF norm = <<>> THEN acc
    ELSE sort_by_key(Tail(norm), insert_by_key(acc, norm[1], order), order)

\* Lines 156-158: `norm` ordered by the position of each version string in
\* the descending list of the version strings that parse.
rank(norm) ==
    sort_by_key(norm, <<>>,
                sort_versions_by_semver_desc(
                    [i \in 1..Len(norm) |-> norm[i].version]))

\* `versions` is resp.get("versions", []) of the list call: what
\* get_prod_versions returns, when it returns.
get_prod_versions(versions) == rank(normalize(versions))

\* get_prod_versions raises ValueError: line 156 does, on the version strings
\* of the eligible entries.
get_prod_versions_raises(versions) ==
    sort_versions_by_semver_desc_raises(
        [i \in 1..Len(normalize(versions)) |-> normalize(versions)[i].version])

(***************************************************************************)
(* pick_next_latest                                                        *)
(***************************************************************************)
\* dup_get without the test of the quarantine tag.
dup_get_keep_quarantined(sorted_prod_versions, exclude_version, ver) ==
    SelectSeq(sorted_prod_versions,
              LAMBDA v : v.version = ver /\ v.version # exclude_version)

\* dup[ver]: the entries of version ver that are neither the excluded version
\* nor tagged quarantine, in ranked order; <<>> when ver is not a key of dup.
dup_get(sorted_prod_versions, exclude_version, ver) ==
    SelectSeq(sorted_prod_versions,
              LAMBDA v : /\ v.version = ver
                         /\ v.version # exclude_version
                         /\ v.tag # QUARANTINE_TAG)

\* `ordered`: the keys of dup, each once, in the order of their first
\* occurrence in the ranked list.
RECURSIVE ordered_keys(_, _, _, _)
ordered_keys(rest, all, exclude_version, seen) ==
    IF rest = <<>> THEN <<>>
    ELSE LET vv == rest[1].version
         IN  IF /\ vv # exclude_version
                /\ dup_get(all, exclude_version, vv) # <<>>
                /\ vv \notin seen
             THEN <<vv>> \o ordered_keys(Tail(rest), all, exclude_version,
                                         seen \cup {vv})
             ELSE ordered_keys(Tail(rest), all, exclude_version, seen)

\* pick_next_latest falling back on the head of the ranked list when no
\* candidate remains.
pick_next_latest_fallback(sorted_prod_versions, exclude_version) ==
    IF ordered_keys(sorted_prod_versions, sorted_prod_versions,
                    exclude_version, {}) = <<>>
    THEN (IF sorted_prod_versions = <<>> THEN None ELSE sorted_prod_versions[1])
    ELSE dup_get(sorted_prod_versions, exclude_version,
                 ordered_keys(sorted_prod_versions, sorted_prod_versions,
                              exclude_version, {})[1])[1]

\* pick_next_latest taking the first candidate whatever its release status.
pick_next_latest_first_encountered(sorted_prod_versions, exclude_version) ==
    IF ordered_keys(sorted_prod_versions, sorted_prod_versions,
                    exclude_version, {}) = <<>>
    THEN None
    ELSE dup_get(sorted_prod_versions, exclude_version,
                 ordered_keys(sorted_prod_versions, sorted_prod_versions,
                              exclude_version, {})[1])[1]

\* Lines 161-186: the entry to give "latest" to, None when there is none.
pick_next_latest(sorted_prod_versions, exclude_version) ==
    LET ordered == ordered_keys(sorted_prod_versions, sorted_prod_versions,
                                exclude_version, {})
    IN  IF ordered = <<>> THEN None
        ELSE LET cands   == dup_get(sorted_prod_versions, exclude_version,
                                    ordered[1])
                 trusted == SelectSeq(cands,
                                LAMBDA c : c.release_status = TRUSTED)
             IN  IF trusted # <<>> THEN trusted[1] ELSE cands[1]

(***************************************************************************)
(* The registry (the remote service behind AppTrustClient)                 *)
(***************************************************************************)
\* The version strings an application may hold, in the order the list call
\* returns them (order_by=created, descending): one string SEMVER_RE does not
\* match, two strings of equal precedence, and a higher version created
\* before them.
VersionUniverse ==
    << <<"1", ".", "0">>,
       <<"1", ".", "5", ".", "0">>,
       <<"v", "1", ".", "5", ".", "0">>,
       <<"2", ".", "0", ".", "0">> >>

\* At most this many versions are in the registry.
MaxEntries == 3

RegistryTags == {null, <<LATEST_TAG>>, <<QUARANTINE_TAG>>}

\* The release statuses of the registry's entries: RELEASED, a
\* trusted_release in lower case whose last s is U+017F, LATIN SMALL LETTER
\* LONG S (str.upper() makes it TRUSTED_RELEASE), and DRAFT.
RegistryStatuses ==
    {RELEASED,
     <<"t","r","u","s","t","e","d","_","r","e","l","e","a","U+017F","e">>,
     <<"D","R","A","F","T">>}

BackupKeys == {BACKUP_BEFORE_LATEST, BACKUP_BEFORE_QUARANTINE}

\* The operators who may run the tool.
Procs == {"op1", "op2"}

\* The versions of VersionUniverse at the positions in S, in its order.
RECURSIVE pick_versions(_, _)
pick_versions(S, i) ==
    IF i > Len(VersionUniverse) THEN <<>>
    ELSE (IF i \in S THEN <<VersionUniverse[i]>> ELSE <<>>)
             \o pick_versions(S, i + 1)

\* The registries a run may find: distinct versions, any tags with at most
\* one "latest", no backup property yet, nothing rolled back from PROD.
InitialRegistries ==
    UNION {
      LET vs == pick_versions(S, 1)
      IN  { [i \in 1..Len(vs) |->
                [version        |-> vs[i],
                 tag            |-> tags[i],
                 release_status |-> sts[i],
                 properties     |-> [k \in BackupKeys |-> <<>>],
                 rolled_back    |-> FALSE]] :
              tags \in { t \in [1..Len(vs) -> RegistryTags] :
                           Cardinality({i \in 1..Len(vs) : t[i] = <<LATEST_TAG>>}) <= 1 },
              sts \in [1..Len(vs) -> RegistryStatuses] }
      : S \in { T \in SUBSET (1..Len(VersionUniverse)) :
                  Cardinality(T) <= MaxEntries } }

\* GET /applications/{app}/versions: the "versions" of the response.
list_application_versions(reg) ==
    [i \in 1..Len(reg) |->
        [version        |-> reg[i].version,
         tag            |-> reg[i].tag,
         release_status |-> reg[i].release_status]]

\* A PATCH that replaces the properties of the version by the one it sends.
patch_application_version_replacing(reg, version, tag, properties) ==
    [i \in 1..Len(reg) |->
        IF reg[i].version = version
        THEN [reg[i] EXCEPT !.tag = <<tag>>,
                            !.properties =
                                [k \in BackupKeys |->
                                    IF k = properties.key
                                    THEN properties.value ELSE <<>>]]
        ELSE reg[i]]

\* PATCH /applications/{app}/versions/{version} with body {tag, properties}:
\* the registry after it.  properties is [key, value]; the other properties
\* of the version are kept, none is deleted.
patch_application_version(reg, version, tag, properties) ==
    [i \in 1..Len(reg) |->
        IF reg[i].version = version
        THEN [reg[i] EXCEPT !.tag = <<tag>>,
                            !.properties[properties.key] = properties.value]
        ELSE reg[i]]

\* POST /applications/{app}/versions/{version}/rollback with body
\* {from_stage}: the registry after it.
rollback_application_version(reg, version, from_stage) ==
    [i \in 1..Len(reg) |->
        IF reg[i].version = version /\ from_stage = "PROD"
        THEN [reg[i] EXCEPT !.rolled_back = TRUE]
        ELSE reg[i]]

(***************************************************************************)
(* State                                                                   *)
(***************************************************************************)
VARIABLES
    registry,       \* the application's versions in the remote registry
    pc,             \* per operator: where its run of the tool stands
    args,           \* per operator: the arguments of its run
    prod_versions,  \* per operator: the ranked list read by get_prod_versions
    calls,          \* per operator: the calls its run issued or logged, in order
    exit_code,      \* per operator: what main returned, -1 while it has not
    reg_at_start    \* per operator: the registry when its run started

vars == <<registry, pc, args, prod_versions, calls, exit_code, reg_at_start>>

\* --version may name any string; the model draws it from the universe, part
\* of which is not in the registry.
Targets == {VersionUniverse[i] : i \in 1..Len(VersionUniverse)}

NoArgs == [version |-> <<>>, dry_run |-> FALSE,
           base_url |-> FALSE, token |-> FALSE]

\* One entry of `calls`.  issued: the HTTP request was sent (FALSE for a
\* "[DRY-RUN]" line); ok: it returned without raising; overwritten: the tag
\* the registry held for `version` when a patch was sent.
Call(op, issued, ok, version, from_stage, tag, key, value, overwritten) ==
    [op |-> op, issued |-> issued, ok |-> ok, version |-> version,
     from_stage |-> from_stage, tag |-> tag, key |-> key, value |-> value,
     overwritten |-> overwritten]

\* The tag the registry holds for `version`, null when it has no such version.
tag_in_registry(reg, version) ==
    IF \E i \in 1..Len(reg) : reg[i].version = version
    THEN reg[CHOOSE i \in 1..Len(reg) : reg[i].version = version].tag
    ELSE null

Init ==
    /\ registry \in InitialRegistries
    /\ pc = [p \in Procs |-> "idle"]
    /\ args = [p \in Procs |-> NoArgs]
    /\ prod_versions = [p \in Procs |-> <<>>]
    /\ calls = [p \in Procs |-> <<>>]
    /\ exit_code = [p \in Procs |-> -1]
    /\ reg_at_start = [p \in Procs |-> <<>>]

(***************************************************************************)
(* rollback_in_prod and main, one action per remote call                   *)
(***************************************************************************)
\* main returns `code`: rollback_in_prod returned (0), raised (1), or the
\* configuration is incomplete (2).
return(p, code) ==
    /\ pc' = [pc EXCEPT ![p] = "exited"]
    /\ exit_code' = [exit_code EXCEPT ![p] = code]

\* by_version.get(target_version): the dict keeps the last entry of a version.
by_version_get(sorted_prod_versions, target_version) ==
    IF \E i \in 1..Len(sorted_prod_versions) :
           sorted_prod_versions[i].version = target_version
    THEN sorted_prod_versions[
             CHOOSE i \in 1..Len(sorted_prod_versions) :
                 /\ sorted_prod_versions[i].version = target_version
                 /\ \A j \in (i + 1)..Len(sorted_prod_versions) :
                        sorted_prod_versions[j].version # target_version]
    ELSE None

\* had_latest taken to be true whatever the target's tag.
had_latest_always(target) == TRUE

\* had_latest = current_tag == LATEST_TAG
had_latest(target) == target.tag = LATEST_TAG

\* main going on to rollback_in_prod without looking at the token.
main_token_unchecked(p, version, dry_run, base_url, token) ==
    /\ pc[p] = "idle"
    /\ reg_at_start' = [reg_at_start EXCEPT ![p] = registry]
    /\ IF ~base_url
       THEN /\ return(p, 2)
            /\ args' = [args EXCEPT ![p] =
                           [NoArgs EXCEPT !.base_url = base_url,
                                          !.token = token]]
       ELSE /\ args' = [args EXCEPT ![p] =
                           [version |-> version, dry_run |-> dry_run,
                            base_url |-> base_url, token |-> token]]
            /\ pc' = [pc EXCEPT ![p] = "list"]
            /\ UNCHANGED exit_code
    /\ UNCHANGED <<registry, prod_versions, calls>>

\* main up to the call of rollback_in_prod (lines 238-258): the operator
\* starts the tool.  base_url and token say whether each is configured, on
\* the command line or in the environment; args keeps them, and the
\* arguments rollback_in_prod is called with, if it is called.
main(p, version, dry_run, base_url, token) ==
    /\ pc[p] = "idle"
    /\ reg_at_start' = [reg_at_start EXCEPT ![p] = registry]
    /\ IF ~base_url \/ ~token
       THEN /\ return(p, 2)
            /\ args' = [args EXCEPT ![p] =
                           [NoArgs EXCEPT !.base_url = base_url,
                                          !.token = token]]
       ELSE /\ args' = [args EXCEPT ![p] =
                           [version |-> version, dry_run |-> dry_run,
                            base_url |-> base_url, token |-> token]]
            /\ pc' = [pc EXCEPT ![p] = "list"]
            /\ UNCHANGED exit_code
    /\ UNCHANGED <<registry, prod_versions, calls>>

\* validate going on to the target's patch, the stage rollback left out.
validate_skip_rollback(p, ok) ==
    /\ pc[p] = "list"
    /\ calls' = [calls EXCEPT ![p] =
                    Append(@, Call("list", TRUE, ok, <<>>, "", "", "", <<>>, null))]
    /\ IF ~ok \/ get_prod_versions_raises(list_application_versions(registry))
       THEN /\ return(p, 1)
            /\ UNCHANGED prod_versions
       ELSE /\ prod_versions' = [prod_versions EXCEPT ![p] =
                    get_prod_versions(list_application_versions(registry))]
            /\ IF by_version_get(prod_versions'[p], args[p].version) = None
               THEN return(p, 1)
               ELSE /\ pc' = [pc EXCEPT ![p] = "patch_target"]
                    /\ UNCHANGED exit_code
    /\ UNCHANGED <<registry, args, reg_at_start>>

\* rollback_in_prod, lines 196-200: the list call, the ranking, the lookup of
\* the target.  ok = FALSE: the call raised.  The run ends with exit code 1
\* when the call raised, when the ranking raised and when the target is not
\* in the ranked list.
validate(p, ok) ==
    /\ pc[p] = "list"
    /\ calls' = [calls EXCEPT ![p] =
                    Append(@, Call("list", TRUE, ok, <<>>, "", "", "", <<>>, null))]
    /\ IF ~ok \/ get_prod_versions_raises(list_application_versions(registry))
       THEN /\ return(p, 1)
            /\ UNCHANGED prod_versions
       ELSE /\ prod_versions' = [prod_versions EXCEPT ![p] =
                    get_prod_versions(list_application_versions(registry))]
            /\ IF by_version_get(prod_versions'[p], args[p].version) = None
               THEN return(p, 1)
               ELSE /\ pc' = [pc EXCEPT ![p] = "rollback"]
                    /\ UNCHANGED exit_code
    /\ UNCHANGED <<registry, args, reg_at_start>>

\* _request, lines 101-109: the registries a request that was sent can leave.
\* A call that returns was served.  A call that raises was refused or never
\* arrived (the registry is what it was) or was served and lost its answer
\* (a timeout, a read error): the client cannot tell which.
after_request(reg, ok, served) == IF ok THEN {served} ELSE {reg, served}

\* remote_rollback with the failure of the call swallowed.
remote_rollback_swallow(p, ok) ==
    /\ pc[p] = "rollback"
    /\ (args[p].dry_run => ok)
    /\ calls' = [calls EXCEPT ![p] =
            Append(@, Call("rollback", ~args[p].dry_run, ok, args[p].version,
                           "PROD", "", "", <<>>, null))]
    /\ registry' \in IF args[p].dry_run THEN {registry}
                      ELSE after_request(registry, ok,
                               rollback_application_version(
                                   registry, args[p].version, "PROD"))
    /\ pc' = [pc EXCEPT ![p] = "patch_target"]
    /\ UNCHANGED <<args, prod_versions, reg_at_start, exit_code>>

\* rollback_in_prod, lines 202-212: the stage rollback, sent or logged.
remote_rollback(p, ok) ==
    /\ pc[p] = "rollback"
    /\ LET target_version == args[p].version
           from_stage == "PROD"
       IN  IF ~args[p].dry_run
           THEN /\ calls' = [calls EXCEPT ![p] =
                        Append(@, Call("rollback", TRUE, ok, target_version,
                                       from_stage, "", "", <<>>, null))]
                /\ registry' \in after_request(
                                      registry, ok,
                                      rollback_application_version(
                                          registry, target_version, from_stage))
                /\ IF ok
                   THEN /\ pc' = [pc EXCEPT ![p] = "patch_target"]
                        /\ UNCHANGED exit_code
                   ELSE return(p, 1)
           ELSE /\ ok
                /\ calls' = [calls EXCEPT ![p] =
                        Append(@, Call("rollback", FALSE, TRUE, target_version,
                                       from_stage, "", "", <<>>, null))]
                /\ pc' = [pc EXCEPT ![p] = "patch_target"]
                /\ UNCHANGED <<registry, exit_code>>
    /\ UNCHANGED <<args, prod_versions, reg_at_start>>

\* backup_tag_then_patch sending the patch in a dry run too.
backup_tag_then_patch_ignoring_dry_run(p, version, backup_prop_key, new_tag, current_tag, dry_run, ok) ==
    /\ calls' = [calls EXCEPT ![p] =
            Append(@, Call("patch", TRUE, ok, version, "", new_tag,
                           backup_prop_key, <<current_tag>>,
                           tag_in_registry(registry, version)))]
    /\ registry' \in after_request(
                          registry, ok,
                          patch_application_version(
                              registry, version, new_tag,
                              [key |-> backup_prop_key, value |-> <<current_tag>>]))

\* backup_tag_then_patch: the patch of `version`, sent or logged.
backup_tag_then_patch(p, version, backup_prop_key, new_tag, current_tag, dry_run, ok) ==
    LET props == [key |-> backup_prop_key, value |-> <<current_tag>>]
    IN  IF dry_run
        THEN /\ calls' = [calls EXCEPT ![p] =
                     Append(@, Call("patch", FALSE, TRUE, version, "", new_tag,
                                    props.key, props.value, null))]
             /\ UNCHANGED registry
        ELSE /\ calls' = [calls EXCEPT ![p] =
                     Append(@, Call("patch", TRUE, ok, version, "", new_tag,
                                    props.key, props.value,
                                    tag_in_registry(registry, version)))]
             /\ registry' \in after_request(
                                   registry, ok,
                                   patch_application_version(registry, version,
                                                             new_tag, props))

\* after_quarantine looking for a successor whatever the target's tag.
after_quarantine_always_reassign(sorted_prod_versions, target_version) ==
    IF pick_next_latest(sorted_prod_versions, target_version) = None
    THEN "return"
    ELSE "patch_successor"

\* Where rollback_in_prod goes after the target's patch returned (lines
\* 220-230): to the successor's patch, or to its end.
after_quarantine(sorted_prod_versions, target_version) ==
    LET target == by_version_get(sorted_prod_versions, target_version)
    IN  IF had_latest(target)
        THEN IF pick_next_latest(sorted_prod_versions, target_version) = None
             THEN "return"
             ELSE "patch_successor"
        ELSE "return"

\* quarantine_target with new_tag and current_tag passed in each other's
\* place.
quarantine_target_swapped(p, ok) ==
    /\ pc[p] = "patch_target"
    /\ (args[p].dry_run => ok)
    /\ backup_tag_then_patch(p, args[p].version, BACKUP_BEFORE_QUARANTINE,
                             by_version_get(prod_versions[p], args[p].version).tag,
                             QUARANTINE_TAG, args[p].dry_run, ok)
    /\ IF ~ok THEN return(p, 1)
       ELSE IF after_quarantine(prod_versions[p], args[p].version) = "return"
            THEN return(p, 0)
       ELSE /\ pc' = [pc EXCEPT ![p] = "patch_successor"]
            /\ UNCHANGED exit_code
    /\ UNCHANGED <<args, prod_versions, reg_at_start>>

\* quarantine_target ending a dry run once the target's patch is logged.
quarantine_target_dry_stops(p, ok) ==
    /\ pc[p] = "patch_target"
    /\ (args[p].dry_run => ok)
    /\ backup_tag_then_patch(p, args[p].version, BACKUP_BEFORE_QUARANTINE,
                             QUARANTINE_TAG,
                             by_version_get(prod_versions[p], args[p].version).tag,
                             args[p].dry_run, ok)
    /\ IF ~ok THEN return(p, 1)
       ELSE IF \/ args[p].dry_run
               \/ after_quarantine(prod_versions[p], args[p].version) = "return"
            THEN return(p, 0)
       ELSE /\ pc' = [pc EXCEPT ![p] = "patch_successor"]
            /\ UNCHANGED exit_code
    /\ UNCHANGED <<args, prod_versions, reg_at_start>>

\* quarantine_target with the failure of the target's patch not raised.
quarantine_target_swallow(p, ok) ==
    /\ pc[p] = "patch_target"
    /\ (args[p].dry_run => ok)
    /\ backup_tag_then_patch(p, args[p].version, BACKUP_BEFORE_QUARANTINE,
                             QUARANTINE_TAG,
                             by_version_get(prod_versions[p], args[p].version).tag,
                             args[p].dry_run, ok)
    /\ IF after_quarantine(prod_versions[p], args[p].version) = "return"
       THEN return(p, 0)
       ELSE /\ pc' = [pc EXCEPT ![p] = "patch_successor"]
            /\ UNCHANGED exit_code
    /\ UNCHANGED <<args, prod_versions, reg_at_start>>

\* quarantine_target recording no tag as the target's prior tag.
quarantine_target_blank_backup(p, ok) ==
    /\ pc[p] = "patch_target"
    /\ (args[p].dry_run => ok)
    /\ backup_tag_then_patch(p, args[p].version, BACKUP_BEFORE_QUARANTINE,
                             QUARANTINE_TAG, "", args[p].dry_run, ok)
    /\ IF ~ok THEN return(p, 1)
       ELSE IF after_quarantine(prod_versions[p], args[p].version) = "return"
            THEN return(p, 0)
       ELSE /\ pc' = [pc EXCEPT ![p] = "patch_successor"]
            /\ UNCHANGED exit_code
    /\ UNCHANGED <<args, prod_versions, reg_at_start>>

\* rollback_in_prod, lines 215-224 and 229-230: the target's quarantine patch
\* and the decision on the successor.
quarantine_target(p, ok) ==
    /\ pc[p] = "patch_target"
    /\ (args[p].dry_run => ok)
    /\ LET target_version == args[p].version
           target == by_version_get(prod_versions[p], target_version)
           current_tag == target.tag
       IN  /\ backup_tag_then_patch(p, target_version, BACKUP_BEFORE_QUARANTINE,
                                    QUARANTINE_TAG, current_tag,
                                    args[p].dry_run, ok)
           /\ IF ~ok THEN return(p, 1)
              ELSE IF after_quarantine(prod_versions[p], target_version) = "return"
                   THEN return(p, 0)
              ELSE /\ pc' = [pc EXCEPT ![p] = "patch_successor"]
                   /\ UNCHANGED exit_code
    /\ UNCHANGED <<args, prod_versions, reg_at_start>>

\* reassign_latest recording the target's tag in place of the successor's.
reassign_latest_target_tag(p, ok) ==
    /\ pc[p] = "patch_successor"
    /\ (args[p].dry_run => ok)
    /\ backup_tag_then_patch(
           p, pick_next_latest(prod_versions[p], args[p].version).version,
           BACKUP_BEFORE_LATEST, LATEST_TAG,
           by_version_get(prod_versions[p], args[p].version).tag,
           args[p].dry_run, ok)
    /\ return(p, IF ok THEN 0 ELSE 1)
    /\ UNCHANGED <<args, prod_versions, reg_at_start>>

\* reassign_latest with the failure of the successor's patch not raised.
reassign_latest_swallow(p, ok) ==
    /\ pc[p] = "patch_successor"
    /\ (args[p].dry_run => ok)
    /\ backup_tag_then_patch(
           p, pick_next_latest(prod_versions[p], args[p].version).version,
           BACKUP_BEFORE_LATEST, LATEST_TAG,
           pick_next_latest(prod_versions[p], args[p].version).tag,
           args[p].dry_run, ok)
    /\ return(p, 0)
    /\ UNCHANGED <<args, prod_versions, reg_at_start>>

\* rollback_in_prod, lines 225-228: the successor's patch.
reassign_latest(p, ok) ==
    /\ pc[p] = "patch_successor"
    /\ (args[p].dry_run => ok)
    /\ LET next_candidate == pick_next_latest(prod_versions[p], args[p].version)
           cand_ver == next_candidate.version
           cand_tag == next_candidate.tag
       IN  /\ backup_tag_then_patch(p, cand_ver, BACKUP_BEFORE_LATEST,
                                    LATEST_TAG, cand_tag, args[p].dry_run, ok)
           /\ return(p, IF ok THEN 0 ELSE 1)
    /\ UNCHANGED <<args, prod_versions, reg_at_start>>

\* Where in a step of the run the process can be terminated: before the
\* step's call is made, during the call, after the call returned.
KillPoints == {"before", "during", "after"}

\* The call of the step p's run is at, with its outcome: what it adds to the
\* call log and what it leaves in the registry.
pending_call(p, ok) ==
    LET target_version == args[p].version
        dry_run == args[p].dry_run
    IN  CASE pc[p] = "list" ->
               /\ calls' = [calls EXCEPT ![p] =
                      Append(@, Call("list", TRUE, ok, <<>>, "", "", "", <<>>,
                                     null))]
               /\ UNCHANGED registry
          [] pc[p] = "rollback" ->
               /\ calls' = [calls EXCEPT ![p] =
                      Append(@, Call("rollback", ~dry_run, ok, target_version,
                                     "PROD", "", "", <<>>, null))]
               /\ registry' \in
                      IF dry_run THEN {registry}
                      ELSE after_request(registry, ok,
                               rollback_application_version(
                                   registry, target_version, "PROD"))
          [] pc[p] = "patch_target" ->
               backup_tag_then_patch(
                   p, target_version, BACKUP_BEFORE_QUARANTINE, QUARANTINE_TAG,
                   by_version_get(prod_versions[p], target_version).tag,
                   dry_run, ok)
          [] pc[p] = "patch_successor" ->
               backup_tag_then_patch(
                   p, pick_next_latest(prod_versions[p], target_version).version,
                   BACKUP_BEFORE_LATEST, LATEST_TAG,
                   pick_next_latest(prod_versions[p], target_version).tag,
                   dry_run, ok)

\* The process is terminated (section 5 of the design) by a signal or by
\* KeyboardInterrupt, which is no Exception and so passes lines 209 and 262:
\* main returns nothing and the run has no exit code.  It can happen at any
\* point of the run.  "before": between two calls, the call of the step is
\* not made.  "during": the request was sent and the call never returned;
\* the registry may have served it.  "after": the call returned, and the
\* process ended before the next call or before main returned.  After the
\* list call returned (line 146) the process ends either inside
\* get_prod_versions (lines 147-159, the sort and its comparisons included),
\* where prod_versions of line 196 is not assigned yet, or at lines 197-200,
\* where it holds the ranking.
terminate(p, at) ==
    /\ pc[p] \in {"list", "rollback", "patch_target", "patch_successor"}
    /\ pc' = [pc EXCEPT ![p] = "killed"]
    /\ CASE at = "before" ->
               UNCHANGED <<registry, calls, prod_versions>>
          [] at = "during" ->
               /\ pc[p] = "list" \/ ~args[p].dry_run
               /\ pending_call(p, FALSE)
               /\ UNCHANGED prod_versions
          [] at = "after" ->
               /\ pending_call(p, TRUE)
               /\ \/ UNCHANGED prod_versions
                  \/ /\ pc[p] = "list"
                     /\ ~get_prod_versions_raises(
                            list_application_versions(registry))
                     /\ prod_versions' = [prod_versions EXCEPT ![p] =
                            get_prod_versions(
                                list_application_versions(registry))]
    /\ UNCHANGED <<args, exit_code, reg_at_start>>

\* The operator's shell is ready for the next run of the tool.
again(p) ==
    /\ pc[p] \in {"exited", "killed"}
    /\ pc' = [pc EXCEPT ![p] = "idle"]
    /\ args' = [args EXCEPT ![p] = NoArgs]
    /\ prod_versions' = [prod_versions EXCEPT ![p] = <<>>]
    /\ calls' = [calls EXCEPT ![p] = <<>>]
    /\ exit_code' = [exit_code EXCEPT ![p] = -1]
    /\ reg_at_start' = [reg_at_start EXCEPT ![p] = <<>>]
    /\ UNCHANGED registry

\* A run that has started takes its next step.
proceed(p) ==
    \/ \E ok \in BOOLEAN : validate(p, ok)
    \/ \E ok \in BOOLEAN : remote_rollback(p, ok)
    \/ \E ok \in BOOLEAN : quarantine_target(p, ok)
    \/ \E ok \in BOOLEAN : reassign_latest(p, ok)
    \/ \E at \in KillPoints : terminate(p, at)

step(p) ==
    \/ \E version \in Targets, dry_run \in BOOLEAN,
          base_url \in BOOLEAN, token \in BOOLEAN :
            main(p, version, dry_run, base_url, token)
    \/ proceed(p)

\* One run of the tool by one operator, on any registry: no other writer.
Next == step("op1")

Spec == Init /\ [][Next]_vars

\* The registries of released versions only.
ReleasedRegistries ==
    {reg \in InitialRegistries :
        \A i \in 1..Len(reg) : reg[i].release_status = RELEASED}

InitRuns == Init /\ registry \in ReleasedRegistries

NextRuns == step("op1") \/ again("op1")

\* Any number of runs of the tool by one operator, one after the other, on a
\* registry of released versions.
SpecRuns == InitRuns /\ [][NextRuns]_vars

\* The registries of released versions none of which is quarantined.
UnquarantinedRegistries ==
    {reg \in ReleasedRegistries :
        \A i \in 1..Len(reg) : reg[i].tag # <<QUARANTINE_TAG>>}

InitRepeated == Init /\ registry \in UnquarantinedRegistries

NextRepeated ==
    \/ \E version \in Targets : main("op1", version, FALSE, TRUE, TRUE)
    \/ validate("op1", TRUE)
    \/ remote_rollback("op1", TRUE)
    \/ quarantine_target("op1", TRUE)
    \/ reassign_latest("op1", TRUE)
    \/ again("op1")

\* Any number of runs without --dry-run by one operator, one after the
\* other, every call of which succeeds, on a registry of released versions
\* that starts with no quarantined version: the same target may be rolled
\* back again.
SpecRepeated == InitRepeated /\ [][NextRepeated]_vars

\* A run without --dry-run by operator p whose target is not the target of
\* operator q's run.
main_beside(p, q) ==
    \E version \in Targets :
        /\ version # args[q].version
        /\ main(p, version, FALSE, TRUE, TRUE)

NextConcurrent ==
    \/ main_beside("op1", "op2")
    \/ proceed("op1")
    \/ main_beside("op2", "op1")
    \/ proceed("op2")

\* Two operators each run the tool once on the same application, with
\* different targets, on a registry of released versions; the calls of the
\* two runs reach the registry in any order.
SpecConcurrent == InitRuns /\ [][NextConcurrent]_vars

NextRehearsed ==
    \/ \E version \in Targets : main("op2", version, TRUE, TRUE, TRUE)
    \/ proceed("op2")
    \/ /\ pc["op2"] = "exited"
       /\ main("op1", args["op2"].version, FALSE, TRUE, TRUE)
    \/ proceed("op1")

\* A run with --dry-run by one operator, then, on the same registry, the
\* run of another operator with the same target and without --dry-run.
SpecRehearsed == Init /\ [][NextRehearsed]_vars

\* A list response holds at most this many entries.
MaxListed == 3

\* A registry whose list response has the versions vs, a version string
\* possibly in several entries, with the tags and the release statuses given.
Listed(vs, tags, sts) ==
    [i \in DOMAIN vs |->
        [version        |-> vs[i],
         tag            |-> tags[i],
         release_status |-> sts[i],
         properties     |-> [k \in BackupKeys |-> <<>>],
         rolled_back    |-> FALSE]]

\* The tags of a list response: those of the registries, and a tag the tool
\* does not set, the string "null".
ListedTags == RegistryTags \cup {<<"null">>}

InitListed ==
    /\ \E n \in 0..MaxListed :
          \E vs \in [1..n -> Targets],
             tags \in [1..n -> ListedTags],
             sts \in [1..n -> RegistryStatuses] :
               /\ Cardinality({i \in 1..n : tags[i] = <<LATEST_TAG>>}) <= 1
               /\ registry = Listed(vs, tags, sts)
    /\ pc = [p \in Procs |-> "idle"]
    /\ args = [p \in Procs |-> NoArgs]
    /\ prod_versions = [p \in Procs |-> <<>>]
    /\ calls = [p \in Procs |-> <<>>]
    /\ exit_code = [p \in Procs |-> -1]
    /\ reg_at_start = [p \in Procs |-> <<>>]

NextListed ==
    \/ \E version \in Targets : main("op1", version, TRUE, TRUE, TRUE)
    \/ validate("op1", TRUE)
    \/ remote_rollback("op1", TRUE)
    \/ quarantine_target("op1", TRUE)
    \/ reassign_latest("op1", TRUE)

\* One run with --dry-run, every call of which succeeds, on any list
\* response: what get_prod_versions and pick_next_latest compute from it.
SpecListed == InitListed /\ [][NextListed]_vars

\* A number of one digit more than int() converts: 11...1.
LongNumber == [i \in 1..(int_max_str_digits + 1) |-> "1"]

\* Version strings SEMVER_RE matches, for the comparator: cores that differ
\* in each field, by more than their first digit; prereleases absent, numeric,
\* alphanumeric, in either case, one a prefix of another; a numeric
\* identifier written with a digit that is not ASCII; build metadata; a
\* leading v; a numeric identifier of more digits than int() converts.
CompareVersions ==
    << <<"1", ".", "0", ".", "0">>,   \* 1: 1.0.0
       <<"2", ".", "0", ".", "0">>,   \* 2: 2.0.0
       <<"1", ".", "1", "0", ".", "0">>,   \* 3: 1.10.0
       <<"1", ".", "9", ".", "0">>,   \* 4: 1.9.0
       <<"1", ".", "0", ".", "0", "-", "a", "l", "p", "h", "a">>,   \* 5: 1.0.0-alpha
       <<"1", ".", "0", ".", "0", "-", "a", "l", "p", "h", "a", ".", "1">>,   \* 6: 1.0.0-alpha.1
       <<"1", ".", "0", ".", "0", "-", "a", "l", "p", "h", "a", ".", "b", "e", "t", "a">>,   \* 7: 1.0.0-alpha.beta
       <<"1", ".", "0", ".", "0", "-", "b", "e", "t", "a">>,   \* 8: 1.0.0-beta
       <<"1", ".", "0", ".", "0", "-", "2">>,   \* 9: 1.0.0-2
       <<"1", ".", "0", ".", "0", "-", "1", "0">>,   \* 10: 1.0.0-10
       <<"1", ".", "0", ".", "0", "-", "1", ArabicIndicZero>>,   \* 11: 1.0.0-1<U+0660>
       <<"1", ".", "0", ".", "0", "+", "a">>,   \* 12: 1.0.0+a
       <<"1", ".", "0", ".", "0", "+", "b">>,   \* 13: 1.0.0+b
       <<"v", "1", ".", "0", ".", "0">>,   \* 14: v1.0.0
       <<"1", ".", "0", ".", "0", "-", "B", "e", "t", "a">>,   \* 15: 1.0.0-Beta
       <<"1", ".", "0", ".", "0", "-", "a", "l", "p", "h", "a", "+", "b">>,   \* 16: 1.0.0-alpha+b
       <<"1", ".", "0", ".", "0", "-">> \o LongNumber >>   \* 17: 1.0.0-11...1

\* A list response holds this many of them.
MaxCompared == 3

InitCompare ==
    /\ \E vs \in [1..MaxCompared -> {CompareVersions[i] :
                                        i \in 1..Len(CompareVersions)}] :
          registry = Listed(vs, [i \in 1..MaxCompared |-> null],
                            [i \in 1..MaxCompared |-> RELEASED])
    /\ pc = [p \in Procs |-> "idle"]
    /\ args = [p \in Procs |-> NoArgs]
    /\ prod_versions = [p \in Procs |-> <<>>]
    /\ calls = [p \in Procs |-> <<>>]
    /\ exit_code = [p \in Procs |-> -1]
    /\ reg_at_start = [p \in Procs |-> <<>>]

NextCompare ==
    \/ main("op1", registry[1].version, TRUE, TRUE, TRUE)
    \/ validate("op1", TRUE)

\* The ranking of a list of released versions: what SemVer.parse and
\* compare_semver compute on the version strings of the list.
SpecCompare == InitCompare /\ [][NextCompare]_vars

\* Version strings for the parser, inside and outside what SEMVER_RE matches:
\* plain and v-prefixed cores, prereleases that are alphanumeric, numeric,
\* digit-led with letters, zero-led, build metadata, white space around the
\* text, a zero-led core field, a missing field, empty prerelease and build,
\* an empty identifier, a digit that is not ASCII, an upper-case V, nothing,
\* a major number of more digits than int() converts.
ParseVersions ==
    << <<"1", ".", "0", ".", "0">>,   \* 1: 1.0.0
       <<"v", "1", ".", "2", ".", "3">>,   \* 2: v1.2.3
       <<"1", ".", "0", ".", "0", "-", "a", "l", "p", "h", "a", ".", "1">>,   \* 3: 1.0.0-alpha.1
       <<"1", ".", "0", ".", "0", "-", "1", "a", "b", "c">>,   \* 4: 1.0.0-1abc
       <<"1", ".", "0", ".", "0", "-", "0", "1">>,   \* 5: 1.0.0-01
       <<"1", ".", "0", ".", "0", "-", "r", "c", "-", "1", "+", "b", ".", "0", "1">>,   \* 6: 1.0.0-rc-1+b.01
       <<" ", "1", ".", "0", ".", "0">>,   \* 7: <space>1.0.0
       <<"1", ".", "0", ".", "0", "\n">>,   \* 8: 1.0.0<newline>
       <<"0", "1", ".", "0", ".", "0">>,   \* 9: 01.0.0
       <<"1", ".", "0">>,   \* 10: 1.0
       <<"1", ".", "0", ".", "0", "-">>,   \* 11: 1.0.0-
       <<"1", ".", "0", ".", "0", "-", "a", "+">>,   \* 12: 1.0.0-a+
       <<"1", ArabicIndicZero, ".", "0", ".", "0">>,   \* 13: 1<U+0660>.0.0
       <<"1", ".", "0", ".", "0", "-", "a", ".", ".", "b">>,   \* 14: 1.0.0-a..b
       <<"V", "1", ".", "0", ".", "0">>,   \* 15: V1.0.0
       <<>>,   \* 16: the empty string
       <<"1", ".", "0", ".", "0", "\r", "\n">>,   \* 17: 1.0.0<CR><LF>
       <<"U+00A0", "1", ".", "0", ".", "0", "U+000B">>,   \* 18: <U+00A0>1.0.0<U+000B>
       <<"1", "U+0669", ".", "0", ".", "0", "-", "1", "U+0661">>,   \* 19: 1<U+0669>.0.0-1<U+0661>
       LongNumber \o <<".", "0", ".", "0">> >>   \* 20: 11...1.0.0

\* A list response holds this many of them.
MaxParsed == 2

InitParse ==
    /\ \E vs \in [1..MaxParsed -> {ParseVersions[i] :
                                      i \in 1..Len(ParseVersions)}] :
          registry = Listed(vs, [i \in 1..MaxParsed |-> null],
                            [i \in 1..MaxParsed |-> RELEASED])
    /\ pc = [p \in Procs |-> "idle"]
    /\ args = [p \in Procs |-> NoArgs]
    /\ prod_versions = [p \in Procs |-> <<>>]
    /\ calls = [p \in Procs |-> <<>>]
    /\ exit_code = [p \in Procs |-> -1]
    /\ reg_at_start = [p \in Procs |-> <<>>]

\* The ranking of a list of released versions whose version strings are any
\* text: what SemVer.parse returns on each of them.
SpecParse == InitParse /\ [][NextCompare]_vars

(***************************************************************************)
(* Vocabulary of the properties                                            *)
(***************************************************************************)
\* An entry of the registry is eligible: its release status, case ignored,
\* is TRUSTED_RELEASE or RELEASED.
Eligible(e) == upper(e.release_status) \in {TRUSTED, RELEASED}

EligibleVersions(reg) ==
    {reg[i].version : i \in {j \in 1..Len(reg) : Eligible(reg[j])}}

\* The tag of `version` as a run reads it from registry reg: null read as "".
TagRead(reg, version) ==
    IF tag_in_registry(reg, version) = null THEN ""
    ELSE tag_in_registry(reg, version)[1]

LatestHolders(reg) == {i \in 1..Len(reg) : reg[i].tag = <<LATEST_TAG>>}

\* Tags and backup properties of a registry, the stage flag left out.
TagsAndProperties(reg) ==
    [i \in 1..Len(reg) |-> <<reg[i].version, reg[i].tag, reg[i].properties>>]

\* Positions in the call log of operator p.
PatchCalls(p) == {i \in 1..Len(calls[p]) : calls[p][i].op = "patch"}

MutatingCallsSent(p) ==
    {i \in 1..Len(calls[p]) :
        calls[p][i].op \in {"rollback", "patch"} /\ calls[p][i].issued}

\* p's run was terminated: the process ended before main returned, and the
\* run has no exit code.
Terminated(p) == pc[p] = "killed"

\* The list call of p's run returned.
ListReturned(p) ==
    Len(calls[p]) >= 1 /\ calls[p][1].op = "list" /\ calls[p][1].ok

\* p's run passed validation: its target is in the eligible set it read.
Validated(p) ==
    ListReturned(p) /\ args[p].version \in EligibleVersions(reg_at_start[p])

(***************************************************************************)
(* C1                                                                      *)
(***************************************************************************)
\* C1: when the target version is absent from the eligible set computed from
\* the fetched list, the run, unless the process was terminated, has ended
\* with exit code 1, and in every case the list call is its only call: no
\* rollback call and no tag-patch is sent or logged, the registry is what it
\* was, with and without --dry-run.
C1_TargetNotEligibleAborts ==
    \A p \in Procs :
        (ListReturned(p) /\ args[p].version \notin EligibleVersions(reg_at_start[p]))
            => /\ ~Terminated(p) => (pc[p] = "exited" /\ exit_code[p] = 1)
               /\ Len(calls[p]) = 1
               /\ registry = reg_at_start[p]

\* A run without --dry-run whose target is in the registry with a status that
\* is not eligible has been refused.
C1_Witness ==
    /\ ListReturned("op1")
    /\ ~args["op1"].dry_run
    /\ \E i \in 1..Len(reg_at_start["op1"]) :
           /\ reg_at_start["op1"][i].version = args["op1"].version
           /\ ~Eligible(reg_at_start["op1"][i])
    /\ exit_code["op1"] = 1

(***************************************************************************)
(* C2                                                                      *)
(***************************************************************************)
\* The stage rollback call of p's run was sent and did not return.
RollbackFailed(p) ==
    \E i \in 1..Len(calls[p]) :
        /\ calls[p][i].op = "rollback"
        /\ calls[p][i].issued
        /\ ~calls[p][i].ok

\* C2: when the stage rollback call of a run without --dry-run fails, the
\* run, unless the process was terminated, has ended with exit code 1; in
\* every case it has sent or logged no tag-patch, and every tag and backup
\* property of the registry is what it was when the run began.
C2_RollbackFailureAborts ==
    \A p \in Procs :
        RollbackFailed(p)
            => /\ ~Terminated(p) => (pc[p] = "exited" /\ exit_code[p] = 1)
               /\ PatchCalls(p) = {}
               /\ TagsAndProperties(registry) = TagsAndProperties(reg_at_start[p])

\* The rollback of a target that holds "latest" failed.
C2_Witness ==
    /\ RollbackFailed("op1")
    /\ ~args["op1"].dry_run
    /\ tag_in_registry(reg_at_start["op1"], args["op1"].version) = <<LATEST_TAG>>
    /\ exit_code["op1"] = 1

(***************************************************************************)
(* C3                                                                      *)
(***************************************************************************)
\* Call i of p's run is the quarantine patch of the run's target.
IsQuarantinePatch(p, i) ==
    /\ calls[p][i].op = "patch"
    /\ calls[p][i].version = args[p].version
    /\ calls[p][i].tag = QUARANTINE_TAG

\* C3: the calls of a run come in the order list-versions, stage rollback
\* (sent, or logged in a dry run), quarantine patch of the target, patch of
\* the successor: the list call is first and only first; the rollback is
\* second, for the target, after the list returned and validation passed; a
\* patch comes only after a rollback that did not fail; the third call is the
\* target's quarantine patch; a fourth is the successor's, after the target's
\* went through.
C3_CallOrder ==
    \A p \in Procs :
        /\ Len(calls[p]) <= 4
        /\ \A i \in 1..Len(calls[p]) :
              /\ (calls[p][i].op = "list") <=> (i = 1)
              /\ (calls[p][i].op = "rollback")
                    => /\ i = 2
                       /\ Validated(p)
                       /\ calls[p][i].version = args[p].version
                       /\ calls[p][i].issued <=> ~args[p].dry_run
              /\ (calls[p][i].op = "patch")
                    => /\ i >= 3
                       /\ Validated(p)
                       /\ calls[p][2].op = "rollback"
                       /\ calls[p][2].ok
                       /\ (i = 3 => IsQuarantinePatch(p, 3))
                       /\ (i = 4 => /\ IsQuarantinePatch(p, 3)
                                    /\ calls[p][3].ok
                                    /\ calls[p][4].tag = LATEST_TAG)

\* A run without --dry-run that sent all four calls.
C3_Witness ==
    /\ Len(calls["op1"]) = 4
    /\ \A i \in 1..4 : calls["op1"][i].issued /\ calls["op1"][i].ok
    /\ exit_code["op1"] = 0

(***************************************************************************)
(* C4                                                                      *)
(***************************************************************************)
\* p's run without --dry-run has ended with exit code 0.
Succeeded(p) ==
    pc[p] = "exited" /\ exit_code[p] = 0 /\ ~args[p].dry_run

\* C4: from a registry with at most one "latest" (every initial registry),
\* after a successful run without --dry-run at most one eligible entry that
\* is not quarantined carries "latest".
C4_OneEligibleLatestAfterSuccess ==
    \A p \in Procs :
        Succeeded(p)
            => Cardinality({i \in LatestHolders(registry) :
                               Eligible(registry[i])}) <= 1

\* A successful run moved "latest" from its target to another version.
C4_Witness ==
    /\ Succeeded("op1")
    /\ Len(calls["op1"]) = 4
    /\ tag_in_registry(reg_at_start["op1"], args["op1"].version) = <<LATEST_TAG>>
    /\ \E i \in LatestHolders(registry) :
           /\ Eligible(registry[i])
           /\ registry[i].version # args["op1"].version

(***************************************************************************)
(* C5                                                                      *)
(***************************************************************************)
\* C5: in every state of a run, between the two patches, after an abort and
\* after the process was terminated (before, during or after any of its
\* calls) included, at most one version is tagged "latest"; and when the
\* registry had a "latest" as the run began and has none now, the target
\* held it and is now quarantined.
C5_AtMostOneLatestAlways ==
    /\ Cardinality(LatestHolders(registry)) <= 1
    /\ \A p \in Procs :
          (LatestHolders(reg_at_start[p]) # {} /\ LatestHolders(registry) = {})
              => /\ tag_in_registry(reg_at_start[p], args[p].version) = <<LATEST_TAG>>
                 /\ tag_in_registry(registry, args[p].version) = <<QUARANTINE_TAG>>

\* The process was terminated while the target's patch was in flight: the
\* call never returned, the registry served it, and the patch of the
\* successor the run had found was never sent.  The target is quarantined,
\* nothing is "latest", the run has no exit code.
C5_Witness ==
    /\ Terminated("op1")
    /\ exit_code["op1"] = -1
    /\ Len(calls["op1"]) = 3
    /\ IsQuarantinePatch("op1", 3)
    /\ calls["op1"][3].issued /\ ~calls["op1"][3].ok
    /\ pick_next_latest(prod_versions["op1"], args["op1"].version) # None
    /\ tag_in_registry(reg_at_start["op1"], args["op1"].version) = <<LATEST_TAG>>
    /\ tag_in_registry(registry, args["op1"].version) = <<QUARANTINE_TAG>>
    /\ LatestHolders(registry) = {}

(***************************************************************************)
(* C6                                                                      *)
(***************************************************************************)
\* The entries of a ranked list that remain once the excluded version and
\* the quarantined entries are skipped.
Remaining(sorted_prod_versions, exclude_version) ==
    {i \in 1..Len(sorted_prod_versions) :
        /\ sorted_prod_versions[i].version # exclude_version
        /\ sorted_prod_versions[i].tag # QUARANTINE_TAG}

\* What pick_next_latest owes its caller on one ranked list.
PickIsSound(sorted_prod_versions, exclude_version, picked) ==
    IF Remaining(sorted_prod_versions, exclude_version) = {}
    THEN picked = None
    ELSE /\ picked # None
         /\ picked.version # exclude_version
         /\ picked.tag # QUARANTINE_TAG

\* C6: on the ranked list of every run, pick_next_latest returns neither the
\* excluded version nor an entry tagged "quarantine", and returns None
\* exactly when no entry remains after the filtering; and every patch that
\* sets "latest" is for a version that is not the run's target and whose tag,
\* in the registry when the patch is sent and as the run read it, is not
\* "quarantine".
C6_NeverLatestOnQuarantinedOrTarget ==
    \A p \in Procs :
        /\ PickIsSound(prod_versions[p], args[p].version,
                       pick_next_latest(prod_versions[p], args[p].version))
        /\ \A i \in PatchCalls(p) :
              calls[p][i].tag = LATEST_TAG
                  => /\ calls[p][i].version # args[p].version
                     /\ calls[p][i].overwritten # <<QUARANTINE_TAG>>
                     /\ TagRead(reg_at_start[p], calls[p][i].version)
                            # QUARANTINE_TAG

\* "latest" was given to a successor while another version than the target
\* was eligible and quarantined: the search skipped it.
C6_Witness ==
    /\ Len(calls["op1"]) = 4
    /\ calls["op1"][4].tag = LATEST_TAG
    /\ calls["op1"][4].issued /\ calls["op1"][4].ok
    /\ \E i \in 1..Len(prod_versions["op1"]) :
           /\ prod_versions["op1"][i].version # args["op1"].version
           /\ prod_versions["op1"][i].tag = QUARANTINE_TAG

(***************************************************************************)
(* C7                                                                      *)
(***************************************************************************)
\* C7: a run with --dry-run sends no rollback call and no tag-patch, whatever
\* it decides, and leaves the registry as it was; once past validation it
\* has sent the list call.
C7_DryRunNoMutation ==
    \A p \in Procs :
        args[p].dry_run
            => /\ MutatingCallsSent(p) = {}
               /\ registry = reg_at_start[p]
               /\ (pc[p] \in {"rollback", "patch_target", "patch_successor",
                               "exited"}
                      => /\ Len(calls[p]) >= 1
                         /\ calls[p][1].op = "list"
                         /\ calls[p][1].issued)

\* A dry run whose target held "latest" and which found a successor has
\* ended: it logged the rollback and both patches.
C7_Witness ==
    /\ args["op1"].dry_run
    /\ pc["op1"] = "exited"
    /\ exit_code["op1"] = 0
    /\ Len(calls["op1"]) = 4
    /\ calls["op1"][4].tag = LATEST_TAG
    /\ LatestHolders(registry) # {}

(***************************************************************************)
(* C8                                                                      *)
(***************************************************************************)
\* The entry of `version` in registry reg holds tag `tag` and, under `key`,
\* the property `value`.
Holds(reg, version, tag, key, value) ==
    \E i \in 1..Len(reg) :
        /\ reg[i].version = version
        /\ reg[i].tag = <<tag>>
        /\ reg[i].properties[key] = value

\* C8: every tag-patch records the tag of the patched version as the run
\* read it.  The target's (the third call) sets "quarantine" and records the
\* target's tag under the quarantine backup key; the successor's (the fourth)
\* sets "latest" and records the successor's tag under the latest backup
\* key; the two keys differ; and a patch that went through is in the
\* registry.
C8_BackupRecordsPriorTag ==
    /\ BACKUP_BEFORE_QUARANTINE # BACKUP_BEFORE_LATEST
    /\ \A p \in Procs :
          \A i \in PatchCalls(p) :
              /\ calls[p][i].value
                    = <<TagRead(reg_at_start[p], calls[p][i].version)>>
              /\ (i = 3 => /\ calls[p][i].version = args[p].version
                           /\ calls[p][i].tag = QUARANTINE_TAG
                           /\ calls[p][i].key = BACKUP_BEFORE_QUARANTINE)
              /\ (i = 4 => /\ calls[p][i].tag = LATEST_TAG
                           /\ calls[p][i].key = BACKUP_BEFORE_LATEST)
              /\ (calls[p][i].issued /\ calls[p][i].ok)
                    => Holds(registry, calls[p][i].version, calls[p][i].tag,
                             calls[p][i].key, calls[p][i].value)

\* Both patches went through; the successor had no tag and "" is recorded.
C8_Witness ==
    /\ Len(calls["op1"]) = 4
    /\ calls["op1"][3].issued /\ calls["op1"][3].ok
    /\ calls["op1"][4].issued /\ calls["op1"][4].ok
    /\ calls["op1"][3].value = <<LATEST_TAG>>
    /\ calls["op1"][4].value = <<"">>
    /\ Holds(registry, calls["op1"][4].version, LATEST_TAG,
             BACKUP_BEFORE_LATEST, <<"">>)

(***************************************************************************)
(* C9                                                                      *)
(***************************************************************************)
\* C9: when the target's tag as read during validation is not "latest", the
\* run never reaches the successor's patch: its only patch is the target's
\* quarantine, after which it ends with exit code 0 unless the process is
\* terminated, and the tag of every other version is what it was when the
\* run began.
C9_NoReassignUnlessLatest ==
    \A p \in Procs :
        (Validated(p) /\ TagRead(reg_at_start[p], args[p].version) # LATEST_TAG)
            => /\ pc[p] # "patch_successor"
               /\ Len(calls[p]) <= 3
               /\ \A i \in PatchCalls(p) : IsQuarantinePatch(p, i)
               /\ (Len(calls[p]) = 3 /\ calls[p][3].ok /\ ~Terminated(p))
                     => (pc[p] = "exited" /\ exit_code[p] = 0)
               /\ \A j \in 1..Len(registry) :
                     registry[j].version # args[p].version
                         => registry[j].tag = reg_at_start[p][j].tag

\* An untagged target was quarantined while another eligible version, not
\* quarantined, could have been a successor.
C9_Witness ==
    /\ Succeeded("op1")
    /\ TagRead(reg_at_start["op1"], args["op1"].version) = ""
    /\ tag_in_registry(registry, args["op1"].version) = <<QUARANTINE_TAG>>
    /\ Remaining(prod_versions["op1"], args["op1"].version) # {}

(***************************************************************************)
(* C10                                                                     *)
(***************************************************************************)
\* No version of registry reg but `version` is eligible and not quarantined.
NoSuccessorIn(reg, version) ==
    \A i \in 1..Len(reg) :
        (Eligible(reg[i]) /\ reg[i].version # version)
            => reg[i].tag = <<QUARANTINE_TAG>>

\* C10: when the target held "latest" and no other eligible version is free
\* of quarantine, the run ends with exit code 0 as soon as the target's
\* patch returned, unless the process is terminated, and in every case with
\* no second patch; without --dry-run the target is then quarantined and no
\* version is tagged "latest".
C10_NoSuccessorEndsDone ==
    \A p \in Procs :
        ( /\ Validated(p)
          /\ TagRead(reg_at_start[p], args[p].version) = LATEST_TAG
          /\ NoSuccessorIn(reg_at_start[p], args[p].version)
          /\ Len(calls[p]) >= 3
          /\ calls[p][3].ok )
            => /\ ~Terminated(p) => (pc[p] = "exited" /\ exit_code[p] = 0)
               /\ Len(calls[p]) = 3
               /\ ~args[p].dry_run
                     => /\ LatestHolders(registry) = {}
                        /\ tag_in_registry(registry, args[p].version)
                              = <<QUARANTINE_TAG>>

\* The target held "latest" and the one other eligible version was
\* quarantined: the run succeeded and nothing is "latest".
C10_Witness ==
    /\ Succeeded("op1")
    /\ Len(calls["op1"]) = 3
    /\ TagRead(reg_at_start["op1"], args["op1"].version) = LATEST_TAG
    /\ Len(prod_versions["op1"]) >= 2
    /\ NoSuccessorIn(reg_at_start["op1"], args["op1"].version)
    /\ LatestHolders(registry) = {}

(***************************************************************************)
(* C11                                                                     *)
(***************************************************************************)
\* The successor's patch of p's run was sent and did not return, after the
\* target's patch had gone through.
SecondPatchFailed(p) ==
    /\ Len(calls[p]) = 4
    /\ calls[p][3].op = "patch" /\ calls[p][3].issued /\ calls[p][3].ok
    /\ calls[p][4].op = "patch" /\ calls[p][4].issued /\ ~calls[p][4].ok

\* C11: when the target's quarantine patch succeeded and the successor's
\* patch failed, the run, unless the process was terminated, has ended with
\* exit code 1, the target is still tagged "quarantine" with its backup
\* property (the first patch is not undone), the successor's tag is what it
\* was, and no version is tagged "latest".
C11_SecondPatchFailureSurfaced ==
    \A p \in Procs :
        SecondPatchFailed(p)
            => /\ ~Terminated(p) => (pc[p] = "exited" /\ exit_code[p] = 1)
               /\ Holds(registry, args[p].version, QUARANTINE_TAG,
                        BACKUP_BEFORE_QUARANTINE, <<LATEST_TAG>>)
               /\ tag_in_registry(registry, calls[p][4].version)
                     = tag_in_registry(reg_at_start[p], calls[p][4].version)
               /\ LatestHolders(registry) = {}

\* Every version of the registry but `version` has the tag and the backup
\* properties it had when p's run began.
OthersUntouched(p, version) ==
    \A j \in 1..Len(registry) :
        registry[j].version # version
            => /\ registry[j].tag = reg_at_start[p][j].tag
               /\ registry[j].properties = reg_at_start[p][j].properties

\* `version` has the tag and the backup properties it had when p's run began.
Untouched(p, version) ==
    \A j \in 1..Len(registry) :
        registry[j].version = version
            => /\ registry[j].tag = reg_at_start[p][j].tag
               /\ registry[j].properties = reg_at_start[p][j].properties

\* C11, amended: when the target's quarantine patch succeeded and the
\* successor's patch failed, the run, unless the process was terminated,
\* has ended with exit code 1, and the target is still tagged "quarantine"
\* with its backup property.  Either
\* the registry did not apply the failed patch, the successor is what it was
\* and no version is tagged "latest"; or it applied it before the error
\* reached the tool, and the successor alone is tagged "latest", with the
\* tag it had recorded.
C11_SecondPatchFailureLeavesEither ==
    \A p \in Procs :
        SecondPatchFailed(p)
            => /\ ~Terminated(p) => (pc[p] = "exited" /\ exit_code[p] = 1)
               /\ Holds(registry, args[p].version, QUARANTINE_TAG,
                        BACKUP_BEFORE_QUARANTINE, <<LATEST_TAG>>)
               /\ \/ /\ Untouched(p, calls[p][4].version)
                     /\ LatestHolders(registry) = {}
                  \/ /\ Holds(registry, calls[p][4].version, LATEST_TAG,
                              BACKUP_BEFORE_LATEST, calls[p][4].value)
                     /\ \A i \in LatestHolders(registry) :
                           registry[i].version = calls[p][4].version

\* The target held "latest", a successor was found, its patch failed and
\* the registry had applied it: the successor is tagged "latest".
C11_Witness ==
    /\ SecondPatchFailed("op1")
    /\ pc["op1"] = "exited" /\ exit_code["op1"] = 1
    /\ tag_in_registry(registry, calls["op1"][4].version) = <<LATEST_TAG>>
    /\ tag_in_registry(reg_at_start["op1"], args["op1"].version) = <<LATEST_TAG>>
    /\ calls["op1"][4].tag = LATEST_TAG
    /\ calls["op1"][4].version # args["op1"].version

(***************************************************************************)
(* C12                                                                     *)
(***************************************************************************)
\* The base URL and the credential of p's run are both there.
Configured(p) == args[p].base_url /\ args[p].token

\* An error was raised in rollback_in_prod: a call failed, the ranking of the
\* list raised, or the target is not in the eligible set.
ErrorRaised(p) ==
    \/ \E i \in 1..Len(calls[p]) : ~calls[p][i].ok
    \/ ListReturned(p) /\ args[p].version \notin EligibleVersions(reg_at_start[p])
    \/ /\ ListReturned(p)
       /\ get_prod_versions_raises(list_application_versions(reg_at_start[p]))

\* C12: a run whose base URL or credential is missing attempts no registry
\* call and ends with exit code 2, and only such a run does; a run in which
\* an error is raised (a failed list, rollback or patch call, a ranking that
\* raises, or a target that is not eligible) ends at once with exit code 1
\* unless the process is terminated, and only such a run does; the exit code
\* is 0 exactly when rollback_in_prod returned without error, its last patch
\* sent or logged; a run has an exit code only once it has ended.
C12_ExitCodes ==
    \A p \in Procs :
        /\ ~Configured(p)
              => /\ calls[p] = <<>>
                 /\ pc[p] \in {"idle", "exited"}
                 /\ pc[p] = "exited" => registry = reg_at_start[p]
        /\ (Configured(p) /\ ErrorRaised(p) /\ ~Terminated(p))
              => pc[p] = "exited"
        /\ IF pc[p] = "exited"
           THEN /\ exit_code[p] \in {0, 1, 2}
                /\ exit_code[p] = 2 <=> ~Configured(p)
                /\ exit_code[p] = 1 <=> (Configured(p) /\ ErrorRaised(p))
                /\ exit_code[p] = 0 <=> (Configured(p) /\ ~ErrorRaised(p))
                /\ exit_code[p] = 0
                      => /\ Len(calls[p]) \in {3, 4}
                         /\ calls[p][Len(calls[p])].op = "patch"
           ELSE exit_code[p] = -1

\* The base URL is there and the credential is not: exit code 2, nothing
\* called, on a registry that holds the versions of an application.
C12_Witness ==
    /\ pc["op1"] = "exited"
    /\ exit_code["op1"] = 2
    /\ args["op1"].base_url /\ ~args["op1"].token
    /\ calls["op1"] = <<>>
    /\ registry # <<>>

(***************************************************************************)
(* C13                                                                     *)
(***************************************************************************)
\* Positions of p's call log by kind of call.
ListCalls(p) == {i \in 1..Len(calls[p]) : calls[p][i].op = "list"}

RollbackCalls(p) == {i \in 1..Len(calls[p]) : calls[p][i].op = "rollback"}

QuarantinePatches(p) ==
    {i \in PatchCalls(p) : calls[p][i].tag = QUARANTINE_TAG}

LatestPatches(p) == {i \in PatchCalls(p) : calls[p][i].tag = LATEST_TAG}

\* Registry now keeps every version and every property that was there in
\* registry before.
NothingDeleted(before, now) ==
    /\ Len(now) = Len(before)
    /\ \A i \in 1..Len(before) :
          /\ now[i].version = before[i].version
          /\ \A k \in BackupKeys :
                before[i].properties[k] # <<>> => now[i].properties[k] # <<>>

\* C13: in every run of a sequence of runs, the list call is the first call
\* and the only list call, and a run that passed the configuration check and
\* ended has sent it; at most one rollback is sent, for the target and from
\* stage PROD; at most one quarantine patch and at most one "latest" patch
\* are sent, so at most three mutating calls; a call that failed is the last
\* call of its run, which ended with exit code 1 unless the process was
\* terminated; and the registry keeps every version and every property it
\* had when the run began.
C13_CallBudgetNoRetryNoDelete ==
    \A p \in Procs :
        /\ ListCalls(p) \subseteq {1}
        /\ (pc[p] = "exited" /\ Configured(p))
              => (ListCalls(p) = {1} /\ calls[p][1].issued)
        /\ Cardinality(RollbackCalls(p)) <= 1
        /\ \A i \in RollbackCalls(p) :
              /\ calls[p][i].version = args[p].version
              /\ calls[p][i].from_stage = "PROD"
        /\ Cardinality(QuarantinePatches(p)) <= 1
        /\ Cardinality(LatestPatches(p)) <= 1
        /\ PatchCalls(p) = QuarantinePatches(p) \cup LatestPatches(p)
        /\ Cardinality(MutatingCallsSent(p)) <= 3
        /\ \A i \in 1..Len(calls[p]) :
              ~calls[p][i].ok
                  => /\ i = Len(calls[p])
                     /\ ~Terminated(p)
                           => (pc[p] = "exited" /\ exit_code[p] = 1)
        /\ pc[p] # "idle" => NothingDeleted(reg_at_start[p], registry)

\* A run sent its three mutating calls; its target had been given "latest",
\* with the backup of its tag, by an earlier run, and has kept that property.
C13_Witness ==
    /\ pc["op1"] = "exited" /\ exit_code["op1"] = 0
    /\ Cardinality(MutatingCallsSent("op1")) = 3
    /\ calls["op1"][4].ok
    /\ \E i \in 1..Len(registry) :
           /\ registry[i].version = args["op1"].version
           /\ reg_at_start["op1"][i].properties[BACKUP_BEFORE_LATEST] # <<>>
           /\ registry[i].properties[BACKUP_BEFORE_LATEST] # <<>>
           /\ registry[i].properties[BACKUP_BEFORE_QUARANTINE] # <<>>

(***************************************************************************)
(* C14                                                                     *)
(***************************************************************************)
\* What a call asks of the registry, whether it is sent or logged.
Request(c) ==
    [op |-> c.op, version |-> c.version, from_stage |-> c.from_stage,
     tag |-> c.tag, key |-> c.key, value |-> c.value]

\* The rollback and the patches of p's run, in order, sent or logged.
Requests(p) ==
    [i \in 1..(Len(calls[p]) - 1) |-> Request(calls[p][i + 1])]

\* The rollback and the patches of p's run were all sent (issued is TRUE)
\* or all logged (issued is FALSE).
AllAre(p, issued) ==
    \A i \in 2..Len(calls[p]) : calls[p][i].issued = issued

\* C14: a run with --dry-run that has ended, followed on the same registry
\* by a run without it for the same target: when both list calls returned,
\* either both runs fail validation or neither does, unless the process of
\* the second is terminated before it ends; the calls the second
\* run has sent so far are, one by one, those the first logged (rollback of
\* the target, quarantine patch with its backup value, patch of the
\* successor with its version and backup value); and when every call of the
\* second run succeeded and it has ended, the two sequences are equal.
C14_DryRunRehearses ==
    (pc["op2"] = "exited" /\ ListReturned("op2") /\ ListReturned("op1"))
        => /\ ~Terminated("op1")
                 => (exit_code["op2"] = 1
                       <=> (pc["op1"] = "exited" /\ Len(calls["op1"]) = 1))
           /\ AllAre("op2", FALSE) /\ AllAre("op1", TRUE)
           /\ Len(calls["op1"]) <= Len(calls["op2"])
           /\ SubSeq(Requests("op2"), 1, Len(calls["op1"]) - 1)
                 = Requests("op1")
           /\ (pc["op1"] = "exited" /\ exit_code["op1"] = 0)
                 => Requests("op1") = Requests("op2")

\* Both runs ended with exit code 0; the first logged a rollback and two
\* patches, the second sent them.
C14_Witness ==
    /\ pc["op2"] = "exited" /\ exit_code["op2"] = 0
    /\ pc["op1"] = "exited" /\ exit_code["op1"] = 0
    /\ Len(calls["op2"]) = 4 /\ Len(calls["op1"]) = 4
    /\ AllAre("op2", FALSE) /\ AllAre("op1", TRUE)
    /\ calls["op1"][4].tag = LATEST_TAG
    /\ calls["op1"][4].version = calls["op2"][4].version

(***************************************************************************)
(* C15                                                                     *)
(***************************************************************************)
\* The entry get_prod_versions is to return for entry e of the response.
Normalized(e) ==
    [version |-> e.version,
     tag |-> IF e.tag = null THEN "" ELSE e.tag[1],
     release_status |-> upper(e.release_status)]

\* out holds the eligible entries of response in, normalized, each as many
\* times as in holds it, and nothing else.
SameEligibleEntries(in, out) ==
    /\ Len(out) = Cardinality({j \in 1..Len(in) : Eligible(in[j])})
    /\ \A i \in 1..Len(out) :
          Cardinality({k \in 1..Len(out) : out[k] = out[i]})
            = Cardinality({j \in 1..Len(in) :
                             Eligible(in[j]) /\ Normalized(in[j]) = out[i]})

\* No entry of out is followed by one of strictly higher precedence, and
\* none whose version does not parse is followed by one whose version does.
Descending(out) ==
    \A i, j \in 1..Len(out) :
        (i < j /\ SemVer_parse(out[j].version) # None)
            => /\ SemVer_parse(out[i].version) # None
               /\ compare_semver(SemVer_parse(out[i].version),
                                 SemVer_parse(out[j].version)) >= 0

\* get_prod_versions has just returned in p's run: the list call returned,
\* it is the last call made, the ranking of the list did not raise, and the
\* process was not terminated before line 196 assigned the ranking.
JustRanked(p) ==
    /\ Len(calls[p]) = 1
    /\ ListReturned(p)
    /\ ~get_prod_versions_raises(list_application_versions(reg_at_start[p]))
    /\ Terminated(p) => prod_versions[p] # <<>>

\* C15: the list get_prod_versions returns holds exactly the entries of the
\* response whose release status, in upper case, is TRUSTED_RELEASE or
\* RELEASED, with a null tag turned into "", and no entry of it is followed
\* by an entry of strictly higher semantic-version precedence.
C15_RankedEligible ==
    \A p \in Procs :
        JustRanked(p)
            => /\ \A i \in 1..Len(prod_versions[p]) :
                     /\ prod_versions[p][i].release_status \in {TRUSTED, RELEASED}
               /\ SameEligibleEntries(
                      list_application_versions(reg_at_start[p]),
                      prod_versions[p])
               /\ Descending(prod_versions[p])

\* Of three entries listed, the one that is not released is left out and
\* the other two are returned in the other order, a null tag now "".
C15_Witness ==
    /\ JustRanked("op1")
    /\ Len(reg_at_start["op1"]) = 3
    /\ Len(prod_versions["op1"]) = 2
    /\ prod_versions["op1"][1].version = reg_at_start["op1"][3].version
    /\ prod_versions["op1"][2].version = reg_at_start["op1"][1].version
    /\ reg_at_start["op1"][1].tag = null
    /\ prod_versions["op1"][2].tag = ""
    /\ SemVer_parse(prod_versions["op1"][2].version) # None
    /\ compare_semver(SemVer_parse(prod_versions["op1"][1].version),
                      SemVer_parse(prod_versions["op1"][2].version)) > 0

(***************************************************************************)
(* C16                                                                     *)
(***************************************************************************)
\* C16: no entry of the list get_prod_versions returns has a version string
\* that fails to parse, so a run whose target fails to parse does not pass
\* validation, and no patch that sets "latest" is for a version that fails
\* to parse.  The code keeps such entries, ranked after the others.
C16_UnparsableDropped ==
    \A p \in Procs :
        ListReturned(p)
            => /\ \A i \in 1..Len(prod_versions[p]) :
                     SemVer_parse(prod_versions[p][i].version) # None
               /\ (SemVer_parse(args[p].version) = None /\ ~Terminated(p))
                     => (pc[p] = "exited" /\ Len(calls[p]) = 1)
               /\ \A i \in LatestPatches(p) :
                     SemVer_parse(calls[p][i].version) # None

(***************************************************************************)
(* C17                                                                     *)
(***************************************************************************)
\* The version strings of the eligible entries whose precedence is that of
\* sv, in the order of `entries`.
RECURSIVE TiedVersions(_, _)
TiedVersions(entries, sv) ==
    IF entries = <<>> THEN <<>>
    ELSE (IF /\ Eligible(entries[1])
             /\ SemVer_parse(entries[1].version) # None
             /\ compare_semver(SemVer_parse(entries[1].version), sv) = 0
          THEN <<entries[1].version>>
          ELSE <<>>) \o TiedVersions(Tail(entries), sv)

\* C17: in the list get_prod_versions returns, the entries of one precedence
\* are in the order the response has them, whatever the response, a version
\* string occurring more than once included.  The code orders by the last
\* position of each version string, which moves an earlier occurrence of a
\* repeated string behind a tie that came after it.
C17_StableTies ==
    \A p \in Procs :
        JustRanked(p)
            => \A i \in 1..Len(prod_versions[p]) :
                   SemVer_parse(prod_versions[p][i].version) # None
                       => TiedVersions(prod_versions[p],
                                       SemVer_parse(prod_versions[p][i].version))
                            = TiedVersions(
                                  list_application_versions(reg_at_start[p]),
                                  SemVer_parse(prod_versions[p][i].version))

(***************************************************************************)
(* C18                                                                     *)
(***************************************************************************)
\* The least position of a non-empty set of positions.
First(S) == CHOOSE i \in S : \A j \in S : i <= j

\* The remaining entries that share the version string of the first of them,
\* and those of them whose status is TRUSTED_RELEASE.
Sharing(sorted_prod_versions, exclude_version) ==
    {i \in Remaining(sorted_prod_versions, exclude_version) :
        sorted_prod_versions[i].version
          = sorted_prod_versions[
                First(Remaining(sorted_prod_versions, exclude_version))].version}

TrustedSharing(sorted_prod_versions, exclude_version) ==
    {i \in Sharing(sorted_prod_versions, exclude_version) :
        sorted_prod_versions[i].release_status = TRUSTED}

\* No remaining entry has a strictly higher precedence than `picked`.
NoneHigher(sorted_prod_versions, exclude_version, picked) ==
    \A i \in Remaining(sorted_prod_versions, exclude_version) :
        (/\ SemVer_parse(sorted_prod_versions[i].version) # None
         /\ SemVer_parse(picked.version) # None)
            => compare_semver(SemVer_parse(sorted_prod_versions[i].version),
                              SemVer_parse(picked.version)) <= 0

\* What C18 asks of the entry picked when some entry remains.
PickIsBest(sorted_prod_versions, exclude_version, picked) ==
    /\ picked # None
    /\ NoneHigher(sorted_prod_versions, exclude_version, picked)
    /\ IF TrustedSharing(sorted_prod_versions, exclude_version) # {}
       THEN picked = sorted_prod_versions[
                First(TrustedSharing(sorted_prod_versions, exclude_version))]
       ELSE picked = sorted_prod_versions[
                First(Sharing(sorted_prod_versions, exclude_version))]

\* C18: on the list ranked by get_prod_versions and for the target of the
\* run, when some entry remains once the target's version and the
\* quarantined entries are skipped, pick_next_latest returns an entry of the
\* version string ranked first among the remaining ones, than which no
\* remaining entry has a strictly higher precedence: of the remaining
\* entries of that version string, the first whose status is
\* TRUSTED_RELEASE if there is one, the first of them otherwise.
C18_PicksHighestTrustedFirst ==
    \A p \in Procs :
        (/\ JustRanked(p)
         /\ Remaining(prod_versions[p], args[p].version) # {})
            => PickIsBest(prod_versions[p], args[p].version,
                          pick_next_latest(prod_versions[p], args[p].version))

\* "latest" went from the target to a version listed twice, released in the
\* entry ranked first and trusted in the next: the trusted entry was picked.
C18_Witness ==
    /\ Len(calls["op1"]) = 4
    /\ calls["op1"][4].tag = LATEST_TAG
    /\ Len(prod_versions["op1"]) = 3
    /\ Cardinality(Sharing(prod_versions["op1"], args["op1"].version)) = 2
    /\ prod_versions["op1"][
           First(Sharing(prod_versions["op1"], args["op1"].version))
       ].release_status = RELEASED
    /\ pick_next_latest(prod_versions["op1"], args["op1"].version)
           .release_status = TRUSTED
    /\ calls["op1"][4].version
         = pick_next_latest(prod_versions["op1"], args["op1"].version).version

(***************************************************************************)
(* C19                                                                     *)
(***************************************************************************)
\* Semantic-version precedence, stated on its own.  An identifier is numeric
\* when it is made of the digits 0 to 9.
Numeric(x) == Len(x) > 0 /\ \A i \in 1..Len(x) : x[i] \in Digits

\* x before y in ASCII order: at the first position where they differ x has
\* the lower character, or x ends there.
AsciiLower(x, y) ==
    \E k \in 1..Len(y) :
        /\ \A m \in 1..(k - 1) : m <= Len(x) /\ x[m] = y[m]
        /\ (k > Len(x) \/ (k <= Len(x) /\ ord(x[k]) < ord(y[k])))

\* The number x is below the number y.  A numeric identifier has no leading
\* zero: the one with fewer digits is the lower, and of two with as many
\* digits the one that has the lower digit where they first differ.
NumericLower(x, y) ==
    \/ Len(x) < Len(y)
    \/ Len(x) = Len(y) /\ AsciiLower(x, y)

\* Two identifiers differ when they are not the same text.
IdentDiffer(x, y) == x # y

\* Numeric identifiers by value, a numeric one below an alphanumeric one,
\* alphanumeric ones in ASCII order.
IdentLower(x, y) ==
    IF Numeric(x) /\ Numeric(y) THEN NumericLower(x, y)
    ELSE IF Numeric(x) THEN TRUE
    ELSE IF Numeric(y) THEN FALSE
    ELSE AsciiLower(x, y)

\* Prerelease s is lower than t: the first identifier that differs decides,
\* and a strict prefix is lower.
PrereleaseLower(s, t) ==
    \/ \E k \in 1..min(Len(s), Len(t)) :
          /\ \A m \in 1..(k - 1) : ~IdentDiffer(s[m], t[m])
          /\ IdentDiffer(s[k], t[k])
          /\ IdentLower(s[k], t[k])
    \/ /\ Len(s) < Len(t)
       /\ \A m \in 1..Len(s) : ~IdentDiffer(s[m], t[m])

SameCore(a, b) ==
    a.major = b.major /\ a.minor = b.minor /\ a.patch = b.patch

Lower(a, b) ==
    \/ a.major < b.major
    \/ a.major = b.major /\ a.minor < b.minor
    \/ a.major = b.major /\ a.minor = b.minor /\ a.patch < b.patch
    \/ SameCore(a, b) /\ a.prerelease # <<>> /\ b.prerelease = <<>>
    \/ /\ SameCore(a, b)
       /\ a.prerelease # <<>> /\ b.prerelease # <<>>
       /\ PrereleaseLower(a.prerelease, b.prerelease)

Precedence(a, b) == IF Lower(a, b) THEN -1 ELSE IF Lower(b, a) THEN 1 ELSE 0

\* The versions parsed from the list response p's run read.
ParsedOf(p) ==
    {SemVer_parse(reg_at_start[p][i].version) : i \in 1..Len(reg_at_start[p])}

\* C19: for every two versions parsed from the list, compare_semver returns
\* their semantic-version precedence: major, then minor, then patch by
\* value; with the same core, a version without prerelease above one with a
\* prerelease; prerelease identifiers in sequence, numeric ones by value, a
\* numeric one below an alphanumeric one, alphanumeric ones in ASCII order,
\* the first difference deciding; a prerelease that is a strict prefix of
\* the other lower.  The code raises ValueError in place of an answer when
\* a numeric identifier it has to convert has more than 4300 digits, and
\* finds two identifiers of one value equal though their digits differ.
C19_ComparatorIsPrecedence ==
    \A p \in Procs :
        ListReturned(p)
            => \A a, b \in ParsedOf(p) :
                   /\ a # None
                   /\ ~compare_semver_raises(a, b)
                   /\ compare_semver(a, b) = Precedence(a, b)

(***************************************************************************)
(* C20                                                                     *)
(***************************************************************************)
\* compare_semver returns on every pair of S.
Returns(S) == \A a, b \in S : ~compare_semver_raises(a, b)

Antisymmetric(S) ==
    \A a, b \in S : compare_semver(a, b) = -compare_semver(b, a)

Transitive(S) ==
    \A a, b, c \in S :
        (compare_semver(a, b) <= 0 /\ compare_semver(b, c) <= 0)
            => /\ compare_semver(a, c) <= 0
               /\ (compare_semver(a, b) < 0 \/ compare_semver(b, c) < 0)
                     => compare_semver(a, c) < 0

\* The fields of a SemVer but the text it was parsed from, which alone holds
\* the build metadata.
SameFields(a, b) == SameCore(a, b) /\ a.prerelease = b.prerelease

EqualIffSameFields(S) ==
    \A a, b \in S : compare_semver(a, b) = 0 <=> SameFields(a, b)

\* C20: on the versions parsed from the list, compare_semver orders every
\* pair, is antisymmetric and transitive, and returns 0 exactly when major,
\* minor, patch and the sequence of prerelease identifiers are the same,
\* whatever the build metadata.  The code returns 0 as well for numeric
\* identifiers of one value written with different digits, and raises
\* ValueError on a numeric identifier of more than 4300 digits.
C20_TotalOrderOnPrecedence ==
    \A p \in Procs :
        ListReturned(p)
            => /\ Returns(ParsedOf(p))
               /\ Antisymmetric(ParsedOf(p))
               /\ Transitive(ParsedOf(p))
               /\ EqualIffSameFields(ParsedOf(p))

(***************************************************************************)
(* C21                                                                     *)
(***************************************************************************)
\* MAJOR, MINOR, PATCH: a non-negative integer without leading zeros, except
\* the literal 0.
GrammarNumber(s) ==
    /\ Len(s) > 0
    /\ \A i \in 1..Len(s) : s[i] \in Digits
    /\ (s[1] = "0" => Len(s) = 1)

\* An identifier of PRERELEASE, a segment of BUILD: alphanumerics or hyphens,
\* whatever its first character.
GrammarIdent(s) == Len(s) > 0 /\ \A i \in 1..Len(s) : s[i] \in IdentChars

\* text is a dot-separated sequence of identifiers.
GrammarDotted(text) ==
    \A i \in 1..Len(split(text, ".")) : GrammarIdent(split(text, ".")[i])

\* text is MAJOR.MINOR.PATCH
GrammarCore(text) ==
    /\ Len(split(text, ".")) = 3
    /\ \A i \in 1..3 : GrammarNumber(split(text, ".")[i])

\* text is MAJOR.MINOR.PATCH[-PRERELEASE]
GrammarMain(text) ==
    \/ GrammarCore(text)
    \/ \E d \in 1..Len(text) :
          /\ text[d] = "-"
          /\ GrammarCore(SubSeq(text, 1, d - 1))
          /\ GrammarDotted(SubSeq(text, d + 1, Len(text)))

\* text is MAJOR.MINOR.PATCH[-PRERELEASE][+BUILD]
GrammarUnprefixed(text) ==
    \/ GrammarMain(text)
    \/ \E b \in 1..Len(text) :
          /\ text[b] = "+"
          /\ GrammarMain(SubSeq(text, 1, b - 1))
          /\ GrammarDotted(SubSeq(text, b + 1, Len(text)))

\* version is a string of [v]MAJOR.MINOR.PATCH[-PRERELEASE][+BUILD]
InGrammar(version) ==
    \/ GrammarUnprefixed(version)
    \/ Len(version) > 0 /\ version[1] = "v" /\ GrammarUnprefixed(Tail(version))

\* C21: SemVer.parse returns a SemVer for exactly the version strings of the
\* grammar [v]MAJOR.MINOR.PATCH[-PRERELEASE][+BUILD], whose prerelease
\* identifiers are any non-empty text of alphanumerics and hyphens, one that
\* starts with a digit and contains letters included, and None for every
\* other string: it never raises.
C21_ParseAcceptsExactlyGrammar ==
    \A p \in Procs :
        ListReturned(p)
            => \A i \in 1..Len(reg_at_start[p]) :
                   /\ SemVer_parse(reg_at_start[p][i].version) # ValueError
                   /\ (SemVer_parse(reg_at_start[p][i].version) # None)
                         <=> InGrammar(reg_at_start[p][i].version)

(***************************************************************************)
(* C22                                                                     *)
(***************************************************************************)
\* The stage rollback of p's target succeeded and the patch of the target
\* that followed it was sent and did not return.
FirstPatchFailed(p) ==
    /\ Len(calls[p]) >= 3
    /\ calls[p][2].op = "rollback" /\ calls[p][2].issued /\ calls[p][2].ok
    /\ IsQuarantinePatch(p, 3) /\ calls[p][3].issued /\ ~calls[p][3].ok

\* The stage rollback of `version` was performed in reg.
RolledBack(reg, version) ==
    \E i \in 1..Len(reg) : reg[i].version = version /\ reg[i].rolled_back

\* C22: when the target's quarantine patch fails after the stage rollback
\* succeeded, the run, unless the process was terminated, has ended with
\* exit code 1, the failed patch is its
\* last call (no successor's patch is sent or logged), every tag and backup
\* property of the registry is what it was when the run began, so that a
\* target that held "latest" still holds it, and the target's stage rollback
\* is performed.
C22_FirstPatchFailureSurfaced ==
    \A p \in Procs :
        FirstPatchFailed(p)
            => /\ ~Terminated(p) => (pc[p] = "exited" /\ exit_code[p] = 1)
               /\ Len(calls[p]) = 3
               /\ TagsAndProperties(registry) = TagsAndProperties(reg_at_start[p])
               /\ tag_in_registry(registry, args[p].version)
                     = tag_in_registry(reg_at_start[p], args[p].version)
               /\ RolledBack(registry, args[p].version)

\* C22, amended: when the target's quarantine patch fails after the stage
\* rollback succeeded, the run, unless the process was terminated, has
\* ended with exit code 1, the failed patch
\* is its last call (no successor's patch is sent or logged), the target's
\* stage rollback is performed and no version but the target has changed.
\* Either the registry did not apply the failed patch and the target has the
\* tag and backup properties it had, "latest" if it held it; or it applied
\* it before the error reached the tool, and the target is tagged
\* "quarantine" with the tag it had recorded.
C22_FirstPatchFailureLeavesEither ==
    \A p \in Procs :
        FirstPatchFailed(p)
            => /\ ~Terminated(p) => (pc[p] = "exited" /\ exit_code[p] = 1)
               /\ Len(calls[p]) = 3
               /\ RolledBack(registry, args[p].version)
               /\ OthersUntouched(p, args[p].version)
               /\ \/ Untouched(p, args[p].version)
                  \/ Holds(registry, args[p].version, QUARANTINE_TAG,
                           BACKUP_BEFORE_QUARANTINE,
                           <<TagRead(reg_at_start[p], args[p].version)>>)

\* The target held "latest", a successor was there to take it, the stage
\* rollback was performed, the target's patch failed and the registry had
\* applied it: the target is quarantined and no version holds "latest".
C22_Witness ==
    /\ FirstPatchFailed("op1")
    /\ pc["op1"] = "exited"
    /\ tag_in_registry(reg_at_start["op1"], args["op1"].version) = <<LATEST_TAG>>
    /\ tag_in_registry(registry, args["op1"].version) = <<QUARANTINE_TAG>>
    /\ LatestHolders(registry) = {}
    /\ pick_next_latest(prod_versions["op1"], args["op1"].version) # None
    /\ RolledBack(registry, args["op1"].version)

(***************************************************************************)
(* C23                                                                     *)
(***************************************************************************)
\* The tags a version can have had before it was quarantined.
PriorTags == {<<"">>, <<LATEST_TAG>>}

\* C23: after any sequence of successful runs from a registry without
\* quarantined versions, the quarantine backup property of every version
\* tagged "quarantine" holds the tag the version had before it was
\* quarantined: "" or "latest", never "quarantine".
C23_QuarantineBackupRecoverable ==
    \A i \in 1..Len(registry) :
        registry[i].tag = <<QUARANTINE_TAG>>
            => registry[i].properties[BACKUP_BEFORE_QUARANTINE] \in PriorTags

(***************************************************************************)
(* C24                                                                     *)
(***************************************************************************)
\* The patches operator p sent to the registry.
PatchesSent(p) == {i \in PatchCalls(p) : calls[p][i].issued}

\* The tag the i-th call of p found in the registry and overwrote, a null
\* tag read as "".
Overwritten(p, i) ==
    IF calls[p][i].overwritten = null THEN "" ELSE calls[p][i].overwritten[1]

\* The tag of the version patched by the i-th call of p in the list p's run
\* read at validation.
SnapshotTag(p, i) == by_version_get(prod_versions[p], calls[p][i].version).tag

\* C24: when two runs with different targets interleave their registry
\* calls, no patch sets "latest" on a version whose tag in the registry is
\* "quarantine" at the moment of the patch, and the backup value each patch
\* records is the tag it overwrites.
C24_InterleavedPatchesSeeRegistry ==
    \A p \in Procs :
        \A i \in PatchesSent(p) :
            /\ calls[p][i].tag = LATEST_TAG => Overwritten(p, i) # QUARANTINE_TAG
            /\ calls[p][i].value = <<Overwritten(p, i)>>

\* C24, amended: each run acts on the list it read once at validation.  No
\* patch sets "latest" on a version whose tag in that list is "quarantine",
\* and the backup value each patch records is the tag of the version in that
\* list, whatever the other run did to the registry since.
C24_PatchesFollowSnapshot ==
    \A p \in Procs :
        \A i \in PatchesSent(p) :
            /\ calls[p][i].tag = LATEST_TAG => SnapshotTag(p, i) # QUARANTINE_TAG
            /\ calls[p][i].value = <<SnapshotTag(p, i)>>

\* op2 quarantined its target after op1 read the list; op1 then quarantined
\* its own target, which held "latest", and set "latest" on op2's target,
\* recording the tag of its list.
C24_Witness ==
    /\ Len(calls["op1"]) = 4 /\ Len(calls["op2"]) >= 3
    /\ calls["op1"][3].issued /\ calls["op1"][3].ok
    /\ calls["op1"][3].value = <<LATEST_TAG>>
    /\ calls["op1"][4].issued /\ calls["op1"][4].ok
    /\ calls["op1"][4].tag = LATEST_TAG
    /\ calls["op1"][4].version = args["op2"].version
    /\ Overwritten("op1", 4) = QUARANTINE_TAG
    /\ SnapshotTag("op1", 4) = ""

====
